---- MODULE Spec2Model ----
(***************************************************************************)
(* LoanAmortizationFHE: the loan contract of src/frontend/web/src/App.tsx  *)
(* (the Solidity text that follows the React component, lines 780-1310).   *)
(*                                                                         *)
(* An euint32 handle is modelled by the 32-bit plaintext it encrypts; the  *)
(* FHE library (imported at line 780, not part of this repository) is      *)
(* modelled by the arithmetic it performs on those plaintexts.             *)
(*                                                                         *)
(* TLC's integers are 32-bit signed, so an unsigned 32-bit word is kept as *)
(* a pair <<hi, lo>> of 16-bit limbs and every operation is computed limb  *)
(* by limb, modulo 2^32.                                                   *)
(***************************************************************************)
EXTENDS Integers, Sequences, FiniteSets, Bags, TLC

(* ------------------------------------------------------------------ *)
(* Bounds of the model                                                *)
(* ------------------------------------------------------------------ *)

\* submitEncryptedLoan is enabled while loanCount < MaxLoans
MaxLoans == 2

\* requestScheduleDecryption is enabled while fewer than MaxRequests were issued
MaxRequests == 2

\* a client may start submitSchedule while fewer than MaxRuns runs were started
MaxRuns == 2

\* a user may press Refresh, Activate or Complete while fewer than MaxTasks
\* such runs were started
MaxTasks == 3

(* ------------------------------------------------------------------ *)
(* uint32 arithmetic on 16-bit limbs                                  *)
(* ------------------------------------------------------------------ *)

\* 2^16, the limb base
LimbBase == 65536

\* 2^15, the top bit of a limb
LimbTop == 32768

\* the word of a small natural (n < 2^31)
U32(n) == <<n \div LimbBase, n % LimbBase>>

U32Zero == <<0, 0>>

U32One == <<0, 1>>

\* 0xFFFFFFFF
U32Max == <<LimbBase - 1, LimbBase - 1>>

IsU32(w) ==
    /\ w \in Seq(Nat)
    /\ Len(w) = 2
    /\ w[1] < LimbBase
    /\ w[2] < LimbBase

U32Lt(a, b) == a[1] < b[1] \/ (a[1] = b[1] /\ a[2] < b[2])

U32Gt(a, b) == U32Lt(b, a)

\* (a + b) mod 2^32
U32Add(a, b) ==
    LET lo == a[2] + b[2]
    IN  <<(a[1] + b[1] + (lo \div LimbBase)) % LimbBase, lo % LimbBase>>

\* (a - b) mod 2^32
U32Sub(a, b) ==
    LET lo     == a[2] - b[2]
        borrow == IF lo < 0 THEN 1 ELSE 0
    IN  <<(a[1] - b[1] - borrow + 2 * LimbBase) % LimbBase,
          (lo + LimbBase) % LimbBase>>

\* the low 16 bits of the product of two limbs
LimbMulLow(x, y) ==
    ((((x \div 256) * y) % 256) * 256 + (x % 256) * y) % LimbBase

\* the full 32-bit product of two limbs
LimbMulFull(x, y) ==
    LET p == (x \div 256) * y
        q == (x % 256) * y
        s == (p % 256) * 256 + (q % LimbBase)
    IN  <<(p \div 256) + (q \div LimbBase) + (s \div LimbBase), s % LimbBase>>

\* (a * b) mod 2^32
U32Mul(a, b) ==
    LET ll == LimbMulFull(a[2], b[2])
    IN  <<(ll[1] + LimbMulLow(a[1], b[2]) + LimbMulLow(a[2], b[1])) % LimbBase,
          ll[2]>>

\* the powers of two that fit a limb
LimbPowers ==
    <<1, 2, 4, 8, 16, 32, 64, 128, 256, 512, 1024, 2048, 4096, 8192, 16384, 32768>>

\* 2^i, i < 16
Pow2(i) == LimbPowers[i + 1]

\* bit i (0 = least significant) of word a
U32Bit(a, i) ==
    IF i >= 16 THEN (a[1] \div Pow2(i - 16)) % 2 ELSE (a[2] \div Pow2(i)) % 2

\* the word 2^i
U32Pow2(i) == IF i >= 16 THEN <<Pow2(i - 16), 0>> ELSE <<0, Pow2(i)>>

\* (2 * a + bit) mod 2^32
U32Shl1(a, bit) ==
    <<(2 * a[1] + (a[2] \div LimbTop)) % LimbBase, (2 * a[2] + bit) % LimbBase>>

\* a \div 2
U32Shr1(a) == <<a[1] \div 2, (a[2] \div 2) + (a[1] % 2) * LimbTop>>

\* one step of binary long division of a by b # 0, at bit i: from the
\* remainder and quotient st = <<rem, q>> of the bits above i to those of bit i
U32DivStep(a, b, i, st) ==
    LET r2 == U32Shl1(st[1], U32Bit(a, i))
    IN  IF st[1][1] >= LimbTop \/ ~U32Lt(r2, b)
        THEN <<U32Sub(r2, b), U32Add(st[2], U32Pow2(i))>>
        ELSE <<r2, st[2]>>

\* the steps of bits hi down to lo, the upper half of the bits first; the
\* remainder the upper half leaves is below b
RECURSIVE U32DivSteps(_, _, _, _, _)
U32DivSteps(a, b, hi, lo, st) ==
    IF hi = lo THEN U32DivStep(a, b, hi, st)
    ELSE LET mid == (hi + lo + 1) \div 2
             upper == U32DivSteps(a, b, hi, mid, st)
         IN  IF U32Lt(upper[1], b)
             THEN U32DivSteps(a, b, mid - 1, lo, upper)
             ELSE upper

\* truncating unsigned division, b # 0; operands below 2^31 fit an integer
U32DivNonZero(a, b) ==
    IF a[1] < LimbTop /\ b[1] < LimbTop
    THEN U32((a[1] * LimbBase + a[2]) \div (b[1] * LimbBase + b[2]))
    ELSE U32DivSteps(a, b, 31, 0, <<U32Zero, U32Zero>>)[2]

\* (base ^ exp) mod 2^32 by square and multiply; 0 and 1 are their own powers
RECURSIVE U32Pow(_, _)
U32Pow(base, exp) ==
    IF exp = U32Zero THEN U32One
    ELSE IF base = U32Zero \/ base = U32One THEN base
    ELSE LET half == U32Pow(U32Mul(base, base), U32Shr1(exp))
         IN  IF exp[2] % 2 = 1 THEN U32Mul(base, half) ELSE half

(* ------------------------------------------------------------------ *)
(* The FHE library, on the plaintexts the handles encrypt              *)
(* ------------------------------------------------------------------ *)

FHE_asEuint32(n) == U32(n)

FHE_add(a, b) == U32Add(a, b)

FHE_sub(a, b) == U32Sub(a, b)

FHE_mul(a, b) == U32Mul(a, b)

FHE_pow(a, b) == U32Pow(a, b)

FHE_gt(a, b) == U32Gt(a, b)

FHE_cmux(c, a, b) == IF c THEN a ELSE b

(* ------------------------------------------------------------------ *)
(* Addresses, identifiers and inputs                                  *)
(* ------------------------------------------------------------------ *)

\* address(0): the borrower of a loan that was never submitted
ZeroAddress == "0x0"

\* the account that deploys the contract
Deployer == "admin"

\* the accounts that send transactions
Addr == {"admin", "alice", "bob"}

\* the accounts that submit loans
Borrowers == {"alice", "bob"}

\* the accounts the admin is asked to authorise
Advisors == {"bob"}

\* recorded as the sender of a call whose handler does not read msg.sender
AnySender == "any"

\* loan ids a call may name: 0 (never assigned) and every assignable id
LoanIds == 0 .. MaxLoans

\* request ids a call may name: the issuable ones and one that is never issued
RequestIds == 0 .. MaxRequests

\* block.timestamp of the submitting transaction
BlockTimes == {1700000000}

\* principal 10000, rate 500 basis points (5.00%), term 36 months, no extra payment
EndToEndLoan ==
    [principal |-> U32(10000), rate |-> U32(500), term |-> U32(36), extra |-> U32(0)]

\* the plaintexts of the four handles a borrower submits
LoanInputs == {EndToEndLoan}

\* what FHE.div may return for a zero divisor: fixed per deployment
Sentinels == {U32Max, U32Zero}

\* the browsers that run the web client at the same time
Clients == {"c1", "c2"}

\* accounts[0] of the wallet of each browser
WalletAccount(c) == IF c = "c1" THEN "alice" ELSE "bob"

\* what `${Date.now()}-${Math.random().toString(36).substring(2, 9)}` may yield
ScheduleIds == {"s1", "s2"}

\* Math.floor(Date.now() / 1000) when the record is built
UnixTimes == {1700000000}

\* newScheduleData when the form is submitted: two entries that differ in
\* the loan amount and the term
FormInputs ==
    {[loanAmount |-> "10000", term |-> "12", interestRate |-> "5", goal |-> ""],
     [loanAmount |-> "25000", term |-> "36", interestRate |-> "5", goal |-> ""]}

\* parseInt on the term strings the form offers; NaN for any other string
parseInt(str) ==
    CASE str = "12" -> 12
      [] str = "36" -> 36
      [] OTHER -> "NaN"

\* btoa: Base64, an encoding anyone can invert
btoa(text) == <<"base64", text>>

\* bytes that hold no data: what getData returns for a key never written
EmptyBytes == <<>>

\* ethers.toUtf8Bytes(JSON.stringify(value)): the bytes of the JSON text
\* of value, never empty
toUtf8Bytes_JSON_stringify(value) == <<"json", value>>

\* JSON.parse(ethers.toUtf8String(bytes)) of bytes written as above
JSON_parse_toUtf8String(bytes) == bytes[2]

\* bytes that are not the UTF-8 text of a JSON value: JSON.parse throws
NotJSON == <<"text">>

\* JSON.parse(ethers.toUtf8String(bytes)) returns
Parses(bytes) == bytes[1] = "json"

\* the key of the id list and the key of the record of schedule id
KeysKey == <<"schedule_keys">>

ScheduleKey(id) == <<"schedule_", id>>

StoreKeys == {KeysKey} \cup {ScheduleKey(id) : id \in ScheduleIds}

\* the kinds of setTimeout callbacks submitSchedule arms
TimerKinds == {"afterSuccess", "afterError"}

\* a run of loadSchedules of client c at its first await, called on its own
\* ("load") or awaited by the handler kind for schedule id
LoadTask(c, kind, id) ==
    [client |-> c, kind |-> kind, pc |-> "getContractReadOnly", scheduleId |-> id,
     scheduleData |-> <<>>, keys |-> <<>>, list |-> <<>>,
     rejected |-> FALSE]             \* history: a getData of the run rejected

\* the locals of submitSchedule while no run is in progress
NoRun ==
    [owner |-> "", encryptedData |-> <<>>, newScheduleData |-> <<>>,
     scheduleId |-> "", scheduleData |-> <<>>, keys |-> <<>>]

(* ------------------------------------------------------------------ *)
(* State                                                              *)
(* ------------------------------------------------------------------ *)

VARIABLES
    loanCount,              \* uint256 public loanCount
    encryptedLoans,         \* mapping(uint256 => EncryptedLoan)
    amortizationSchedules,  \* mapping(uint256 => AmortizationSchedule)
    decryptedSchedules,     \* mapping(uint256 => DecryptedSchedule)
    borrowerLoans,          \* mapping(address => uint256[])
    financialAdvisors,      \* mapping(address => bool)
    requestToLoanId,        \* mapping(uint256 => uint256)
    platformAdmin,          \* address public platformAdmin
    counterRequest,         \* the FHE library's request counter
    divZeroResult,          \* the FHE library's result of a division by zero
    lastCall,               \* the call in progress and its outcome
    calculatedOnce,         \* history: the ids calculateAmortization succeeded for
    verifiedRequests        \* history: the request ids FHE.checkSignatures accepted

\* the web client (App), one instance per browser, and the key-value
\* records its contract handle reads with getData and writes with setData
VARIABLES
    store,                  \* the bytes kept under each key
    account,                \* useState: the connected account, "" if none
    provider,               \* useState: whether a BrowserProvider is set
    creating,               \* useState: a submission is being created
    transactionStatus,      \* useState: {visible, status}
    timers,                 \* the armed setTimeout callbacks of each client
    pc,                     \* the await each client's submitSchedule is at
    run,                    \* the locals of each client's submitSchedule
    finishedRuns,           \* history: the outcome of every finished run
    schedules,              \* useState: the displayed list
    isRefreshing,           \* useState: a loadSchedules run is in progress
    loading,                \* useState: the loading screen is shown
    tasks,                  \* the runs of loadSchedules, activateSchedule and
                            \* completeSchedule in progress, with their locals
    tasksStarted            \* history: the number of runs the users started

contractVars ==
    <<loanCount, encryptedLoans, amortizationSchedules, decryptedSchedules,
      borrowerLoans, financialAdvisors, requestToLoanId, platformAdmin>>

libraryVars == <<counterRequest, divZeroResult>>

historyVars == <<calculatedOnce, verifiedRequests>>

clientVars == <<account, provider, creating, transactionStatus, timers, pc, run>>

listVars == <<schedules, isRefreshing, loading, tasks, tasksStarted>>

uiVars == <<store, clientVars, finishedRuns, listVars>>

chainVars == <<contractVars, libraryVars, historyVars, lastCall>>

vars == <<contractVars, libraryVars, historyVars, lastCall, uiVars>>

\* FHE.div: truncating unsigned division; a zero divisor yields the sentinel
FHE_div(a, b) == IF b = U32Zero THEN divZeroResult ELSE U32DivNonZero(a, b)

\* the zero value of each struct (a mapping entry never written)
EmptyLoan ==
    [id |-> 0, borrower |-> ZeroAddress,
     encryptedPrincipal |-> U32Zero, encryptedInterestRate |-> U32Zero,
     encryptedTerm |-> U32Zero, encryptedExtraPayment |-> U32Zero,
     timestamp |-> 0]

EmptySchedule ==
    [encryptedMonthlyPayment |-> U32Zero, encryptedTotalInterest |-> U32Zero,
     encryptedPayoffTime |-> U32Zero, isCalculated |-> FALSE]

EmptyDecrypted ==
    [monthlyPayment |-> U32Zero, totalInterest |-> U32Zero,
     payoffTime |-> U32Zero, isRevealed |-> FALSE]

\* no call is in progress and no outcome is waiting to be read
NoCall ==
    [op |-> "none", sender |-> ZeroAddress, id |-> 0, addr |-> ZeroAddress,
     result |-> "none", emitted |-> <<>>, ret |-> <<>>]

\* useState initial values, the loadSchedules run the mount effect starts in
\* each client, and an empty store
InitUI ==
    /\ store = [k \in StoreKeys |-> EmptyBytes]
    /\ account = [c \in Clients |-> ""]
    /\ provider = [c \in Clients |-> FALSE]
    /\ creating = [c \in Clients |-> FALSE]
    /\ transactionStatus = [c \in Clients |-> [visible |-> FALSE, status |-> "pending"]]
    /\ timers = [c \in Clients |-> [k \in TimerKinds |-> 0]]
    /\ pc = [c \in Clients |-> "idle"]
    /\ run = [c \in Clients |-> NoRun]
    /\ finishedRuns = EmptyBag
    /\ schedules = [c \in Clients |-> <<>>]
    /\ isRefreshing = [c \in Clients |-> TRUE]
    /\ loading = [c \in Clients |-> TRUE]
    /\ tasks = SetToBag({LoadTask(c, "load", "") : c \in Clients})
    /\ tasksStarted = 0

\* constructor
InitContract ==
    /\ loanCount = 0
    /\ encryptedLoans = [i \in LoanIds |-> EmptyLoan]
    /\ amortizationSchedules = [i \in LoanIds |-> EmptySchedule]
    /\ decryptedSchedules = [i \in LoanIds |-> EmptyDecrypted]
    /\ borrowerLoans = [a \in Addr |-> <<>>]
    /\ financialAdvisors = [a \in Addr |-> FALSE]
    /\ requestToLoanId = [r \in RequestIds |-> 0]
    /\ platformAdmin = Deployer
    /\ counterRequest = 0
    /\ divZeroResult \in Sentinels
    /\ lastCall = NoCall
    /\ calculatedOnce = {}
    /\ verifiedRequests = {}

\* the contract deployed and the web clients opened
Init == InitContract /\ InitUI

\* a require that fails: the transaction reverts, only its outcome is recorded
Revert(op, sender, id, addr, msg) ==
    /\ lastCall' = [op |-> op, sender |-> sender, id |-> id, addr |-> addr,
                    result |-> msg, emitted |-> <<>>, ret |-> <<>>]
    /\ UNCHANGED <<contractVars, libraryVars, historyVars, uiVars>>

\* a call that completes: the event it emits and the value it returns
Done(op, sender, id, addr, emitted, ret) ==
    /\ lastCall' = [op |-> op, sender |-> sender, id |-> id, addr |-> addr,
                    result |-> "ok", emitted |-> emitted, ret |-> ret]
    /\ UNCHANGED uiVars

(* ------------------------------------------------------------------ *)
(* Transactions                                                       *)
(* ------------------------------------------------------------------ *)

\* modifier onlyAdmin: the message of the require that fails, or "ok"
onlyAdmin(sender) == IF sender # platformAdmin THEN "Not admin" ELSE "ok"

\* onlyAdvisor letting the admin through as well
onlyAdvisorOrAdmin(sender) ==
    IF ~financialAdvisors[sender] /\ sender # platformAdmin THEN "Not authorized" ELSE "ok"

\* modifier onlyAdvisor
onlyAdvisor(sender) == IF ~financialAdvisors[sender] THEN "Not authorized" ELSE "ok"

authorizeAdvisor(sender, advisor) ==
    IF onlyAdmin(sender) # "ok"
    THEN Revert("authorizeAdvisor", sender, 0, advisor, onlyAdmin(sender))
    ELSE /\ financialAdvisors' = [financialAdvisors EXCEPT ![advisor] = TRUE]
         /\ Done("authorizeAdvisor", sender, 0, advisor, <<>>, <<>>)
         /\ UNCHANGED <<loanCount, encryptedLoans, amortizationSchedules,
                        decryptedSchedules, borrowerLoans, requestToLoanId,
                        platformAdmin, libraryVars, historyVars>>

\* submitEncryptedLoan without the write of the new id's schedule
submitEncryptedLoanKeepingSchedule(sender, in, now) ==
    /\ loanCount < MaxLoans
    /\ LET newId == loanCount + 1
       IN  /\ loanCount' = newId
           /\ encryptedLoans' =
                [encryptedLoans EXCEPT ![newId] =
                    [id |-> newId, borrower |-> sender,
                     encryptedPrincipal |-> in.principal,
                     encryptedInterestRate |-> in.rate,
                     encryptedTerm |-> in.term,
                     encryptedExtraPayment |-> in.extra,
                     timestamp |-> now]]
           /\ decryptedSchedules' = [decryptedSchedules EXCEPT ![newId] = EmptyDecrypted]
           /\ borrowerLoans' =
                [borrowerLoans EXCEPT ![sender] = Append(@, newId)]
           /\ Done("submitEncryptedLoan", sender, newId, ZeroAddress,
                   <<"LoanSubmitted", newId, sender>>, <<>>)
    /\ UNCHANGED <<amortizationSchedules, financialAdvisors, requestToLoanId,
                   platformAdmin, libraryVars, historyVars>>

\* borrowerLoans[msg.sender].push(newId) inserting at the front instead
BorrowerLoansPushedFront(sender, newId) ==
    [borrowerLoans EXCEPT ![sender] = <<newId>> \o @]

\* borrowerLoans[msg.sender].push(newId)
BorrowerLoansPushed(sender, newId) ==
    [borrowerLoans EXCEPT ![sender] = Append(@, newId)]

submitEncryptedLoan(sender, in, now) ==
    /\ loanCount < MaxLoans
    /\ LET newId == loanCount + 1
       IN  /\ loanCount' = newId
           /\ encryptedLoans' =
                [encryptedLoans EXCEPT ![newId] =
                    [id |-> newId, borrower |-> sender,
                     encryptedPrincipal |-> in.principal,
                     encryptedInterestRate |-> in.rate,
                     encryptedTerm |-> in.term,
                     encryptedExtraPayment |-> in.extra,
                     timestamp |-> now]]
           /\ amortizationSchedules' =
                [amortizationSchedules EXCEPT ![newId] =
                    [encryptedMonthlyPayment |-> FHE_asEuint32(0),
                     encryptedTotalInterest |-> FHE_asEuint32(0),
                     encryptedPayoffTime |-> FHE_asEuint32(0),
                     isCalculated |-> FALSE]]
           /\ decryptedSchedules' =
                [decryptedSchedules EXCEPT ![newId] =
                    [monthlyPayment |-> U32Zero, totalInterest |-> U32Zero,
                     payoffTime |-> U32Zero, isRevealed |-> FALSE]]
           /\ borrowerLoans' = BorrowerLoansPushed(sender, newId)
           /\ Done("submitEncryptedLoan", sender, newId, ZeroAddress,
                   <<"LoanSubmitted", newId, sender>>, <<>>)
    /\ UNCHANGED <<financialAdvisors, requestToLoanId, platformAdmin, libraryVars,
                   historyVars>>

\* calculateAmortization clamping a negative interest to zero
AmortizationOfSaturating(loan) ==
    LET monthlyRate == FHE_div(loan.encryptedInterestRate, FHE_asEuint32(1200))
        numerator ==
            FHE_mul(FHE_mul(loan.encryptedPrincipal, monthlyRate),
                    FHE_pow(FHE_add(FHE_asEuint32(1), monthlyRate), loan.encryptedTerm))
        denominator ==
            FHE_sub(FHE_pow(FHE_add(FHE_asEuint32(1), monthlyRate), loan.encryptedTerm),
                    FHE_asEuint32(1))
        monthlyPayment == FHE_div(numerator, denominator)
        totalPayment == FHE_mul(monthlyPayment, loan.encryptedTerm)
        totalInterest ==
            IF U32Lt(totalPayment, loan.encryptedPrincipal) THEN U32Zero
            ELSE FHE_sub(totalPayment, loan.encryptedPrincipal)
        effectivePayment == FHE_add(monthlyPayment, loan.encryptedExtraPayment)
        payoffTime == FHE_div(loan.encryptedPrincipal, effectivePayment)
    IN  [encryptedMonthlyPayment |-> monthlyPayment,
         encryptedTotalInterest |-> totalInterest,
         encryptedPayoffTime |-> payoffTime,
         isCalculated |-> TRUE]

\* the schedule calculateAmortization computes from a loan's handles
AmortizationOf(loan) ==
    LET monthlyRate == FHE_div(loan.encryptedInterestRate, FHE_asEuint32(1200))
        numerator ==
            FHE_mul(FHE_mul(loan.encryptedPrincipal, monthlyRate),
                    FHE_pow(FHE_add(FHE_asEuint32(1), monthlyRate), loan.encryptedTerm))
        denominator ==
            FHE_sub(FHE_pow(FHE_add(FHE_asEuint32(1), monthlyRate), loan.encryptedTerm),
                    FHE_asEuint32(1))
        monthlyPayment == FHE_div(numerator, denominator)
        totalPayment == FHE_mul(monthlyPayment, loan.encryptedTerm)
        totalInterest == FHE_sub(totalPayment, loan.encryptedPrincipal)
        extraPayment == loan.encryptedExtraPayment
        effectivePayment == FHE_add(monthlyPayment, extraPayment)
        payoffTime == FHE_div(loan.encryptedPrincipal, effectivePayment)
    IN  [encryptedMonthlyPayment |-> monthlyPayment,
         encryptedTotalInterest |-> totalInterest,
         encryptedPayoffTime |-> payoffTime,
         isCalculated |-> TRUE]

\* calculateAmortization refusing a loan whose monthly rate truncates to zero
calculateRequiresNonZeroRate(sender, loanId) ==
    IF onlyAdvisor(sender) # "ok" THEN onlyAdvisor(sender)
    ELSE IF amortizationSchedules[loanId].isCalculated THEN "Already calculated"
    ELSE IF FHE_div(encryptedLoans[loanId].encryptedInterestRate, FHE_asEuint32(1200))
               = U32Zero
         THEN "Division by zero"
    ELSE "ok"

\* the requires of calculateAmortization, in order
calculateRequires(sender, loanId) ==
    IF onlyAdvisor(sender) # "ok" THEN onlyAdvisor(sender)
    ELSE IF amortizationSchedules[loanId].isCalculated THEN "Already calculated"
    ELSE "ok"

\* calculateAmortization keeping the payment in the loan record as well
calculateAmortizationInPlace(sender, loanId) ==
    IF calculateRequires(sender, loanId) # "ok"
    THEN Revert("calculateAmortization", sender, loanId, ZeroAddress,
                calculateRequires(sender, loanId))
    ELSE /\ amortizationSchedules' =
              [amortizationSchedules EXCEPT ![loanId] = AmortizationOf(encryptedLoans[loanId])]
         /\ encryptedLoans' =
              [encryptedLoans EXCEPT ![loanId].encryptedExtraPayment =
                  FHE_add(AmortizationOf(encryptedLoans[loanId]).encryptedMonthlyPayment, @)]
         /\ Done("calculateAmortization", sender, loanId, ZeroAddress,
                 <<"ScheduleCalculated", loanId>>, <<>>)
         /\ calculatedOnce' = calculatedOnce \cup {loanId}
         /\ UNCHANGED <<loanCount, decryptedSchedules, borrowerLoans,
                        financialAdvisors, requestToLoanId, platformAdmin, libraryVars,
                        verifiedRequests>>

calculateAmortization(sender, loanId) ==
    IF calculateRequires(sender, loanId) # "ok"
    THEN Revert("calculateAmortization", sender, loanId, ZeroAddress,
                calculateRequires(sender, loanId))
    ELSE /\ amortizationSchedules' =
              [amortizationSchedules EXCEPT ![loanId] = AmortizationOf(encryptedLoans[loanId])]
         /\ Done("calculateAmortization", sender, loanId, ZeroAddress,
                 <<"ScheduleCalculated", loanId>>, <<>>)
         /\ calculatedOnce' = calculatedOnce \cup {loanId}
         /\ UNCHANGED <<loanCount, encryptedLoans, decryptedSchedules, borrowerLoans,
                        financialAdvisors, requestToLoanId, platformAdmin, libraryVars,
                        verifiedRequests>>

\* requestScheduleDecryption without its borrower check
requestRequiresAnyCaller(sender, loanId) ==
    IF decryptedSchedules[loanId].isRevealed THEN "Already decrypted"
    ELSE IF ~amortizationSchedules[loanId].isCalculated THEN "Schedule not calculated"
    ELSE "ok"

\* requestScheduleDecryption without its isRevealed check
requestRequiresNoRevealCheck(sender, loanId) ==
    IF encryptedLoans[loanId].borrower # sender THEN "Not borrower"
    ELSE IF ~amortizationSchedules[loanId].isCalculated THEN "Schedule not calculated"
    ELSE "ok"

\* the requires of requestScheduleDecryption, in order
requestRequires(sender, loanId) ==
    IF encryptedLoans[loanId].borrower # sender THEN "Not borrower"
    ELSE IF decryptedSchedules[loanId].isRevealed THEN "Already decrypted"
    ELSE IF ~amortizationSchedules[loanId].isCalculated THEN "Schedule not calculated"
    ELSE "ok"

\* FHE.requestDecryption hands out the library's counter as the request id
requestScheduleDecryption(sender, loanId) ==
    IF requestRequires(sender, loanId) # "ok"
    THEN Revert("requestScheduleDecryption", sender, loanId, ZeroAddress,
                requestRequires(sender, loanId))
    ELSE /\ counterRequest < MaxRequests
         /\ LET reqId == counterRequest
            IN  /\ counterRequest' = counterRequest + 1
                /\ requestToLoanId' = [requestToLoanId EXCEPT ![reqId] = loanId]
                /\ Done("requestScheduleDecryption", sender, loanId, ZeroAddress,
                        <<>>, <<reqId>>)
         /\ UNCHANGED <<loanCount, encryptedLoans, amortizationSchedules,
                        decryptedSchedules, borrowerLoans, financialAdvisors,
                        platformAdmin, divZeroResult, historyVars>>

\* the decryptions of the three handles of a loan's schedule
TrueCleartexts(loanId) ==
    <<amortizationSchedules[loanId].encryptedMonthlyPayment,
      amortizationSchedules[loanId].encryptedTotalInterest,
      amortizationSchedules[loanId].encryptedPayoffTime>>

\* cleartexts that are not the decryptions of any schedule of the model
OtherCleartexts == <<U32(1), U32(2), U32(3)>>

\* the cleartexts a caller may pass with a request id
CleartextChoices(requestId) ==
    {TrueCleartexts(requestToLoanId[requestId]), OtherCleartexts}

\* a request id other than requestId
OtherRequest(requestId) == (requestId + 1) % (MaxRequests + 1)

\* A proof: who signed it, and the request id and cleartexts it signs.
\* The proofs a caller may pass with requestId and cleartexts: the KMS's
\* signature of them, its signature of other cleartexts or of another request,
\* and a signature that is not the KMS's
Proofs(requestId, cleartexts) ==
    { [signer |-> "KMS", requestId |-> requestId, cleartexts |-> cleartexts],
      [signer |-> "KMS", requestId |-> requestId,
       cleartexts |-> CHOOSE c \in {OtherCleartexts, <<U32Zero, U32Zero, U32Zero>>} :
                          c # cleartexts],
      [signer |-> "KMS", requestId |-> OtherRequest(requestId), cleartexts |-> cleartexts],
      [signer |-> "forger", requestId |-> requestId, cleartexts |-> cleartexts] }

\* FHE.checkSignatures: the proof is the KMS's signature of this request id
\* and these cleartexts
checkSignatures(requestId, cleartexts, proof) ==
    /\ proof.signer = "KMS"
    /\ proof.requestId = requestId
    /\ proof.cleartexts = cleartexts

\* decryptAmortizationSchedule without its isRevealed check
decryptRequiresNoRevealCheck(requestId, cleartexts, proof) ==
    LET loanId == requestToLoanId[requestId]
    IN  IF loanId = 0 THEN "Invalid request"
        ELSE IF ~amortizationSchedules[loanId].isCalculated THEN "Schedule not calculated"
        ELSE IF ~checkSignatures(requestId, cleartexts, proof) THEN "Invalid proof"
        ELSE "ok"

\* decryptAmortizationSchedule verifying the proof before its requires
decryptRequiresProofFirst(requestId, cleartexts, proof) ==
    LET loanId == requestToLoanId[requestId]
    IN  IF ~checkSignatures(requestId, cleartexts, proof) THEN "Invalid proof"
        ELSE IF loanId = 0 THEN "Invalid request"
        ELSE IF ~amortizationSchedules[loanId].isCalculated THEN "Schedule not calculated"
        ELSE IF decryptedSchedules[loanId].isRevealed THEN "Already decrypted"
        ELSE "ok"

\* decryptAmortizationSchedule refusing a request id already resolved, where the
\* code refuses a loan already revealed
decryptRequiresOncePerRequest(requestId, cleartexts, proof) ==
    LET loanId == requestToLoanId[requestId]
    IN  IF loanId = 0 THEN "Invalid request"
        ELSE IF ~amortizationSchedules[loanId].isCalculated THEN "Schedule not calculated"
        ELSE IF requestId \in verifiedRequests THEN "Already decrypted"
        ELSE IF ~checkSignatures(requestId, cleartexts, proof) THEN "Invalid proof"
        ELSE "ok"

\* decryptAmortizationSchedule without the FHE.checkSignatures call
decryptRequiresNoProofCheck(requestId, cleartexts, proof) ==
    LET loanId == requestToLoanId[requestId]
    IN  IF loanId = 0 THEN "Invalid request"
        ELSE IF ~amortizationSchedules[loanId].isCalculated THEN "Schedule not calculated"
        ELSE IF decryptedSchedules[loanId].isRevealed THEN "Already decrypted"
        ELSE "ok"

\* decryptAmortizationSchedule without its loanId != 0 check
decryptRequiresNoRequestCheck(requestId, cleartexts, proof) ==
    LET loanId == requestToLoanId[requestId]
    IN  IF ~amortizationSchedules[loanId].isCalculated THEN "Schedule not calculated"
        ELSE IF decryptedSchedules[loanId].isRevealed THEN "Already decrypted"
        ELSE IF ~checkSignatures(requestId, cleartexts, proof) THEN "Invalid proof"
        ELSE "ok"

\* decryptAmortizationSchedule refusing once any loan is revealed
decryptRequiresOnAnyRevealed(d, requestId, cleartexts, proof) ==
    LET loanId == requestToLoanId[requestId]
    IN  IF loanId = 0 THEN "Invalid request"
        ELSE IF ~amortizationSchedules[loanId].isCalculated THEN "Schedule not calculated"
        ELSE IF \E id \in LoanIds : d[id].isRevealed THEN "Already decrypted"
        ELSE IF ~checkSignatures(requestId, cleartexts, proof) THEN "Invalid proof"
        ELSE "ok"

\* the requires of decryptAmortizationSchedule and the library's check, in order,
\* read on the decrypted schedules d
decryptRequiresOn(d, requestId, cleartexts, proof) ==
    LET loanId == requestToLoanId[requestId]
    IN  IF loanId = 0 THEN "Invalid request"
        ELSE IF ~amortizationSchedules[loanId].isCalculated THEN "Schedule not calculated"
        ELSE IF d[loanId].isRevealed THEN "Already decrypted"
        ELSE IF ~checkSignatures(requestId, cleartexts, proof) THEN "Invalid proof"
        ELSE "ok"

\* the same on the contract's decryptedSchedules
decryptRequires(requestId, cleartexts, proof) ==
    decryptRequiresOn(decryptedSchedules, requestId, cleartexts, proof)

\* StoreDecrypted writing one entry below the loan's
StoreDecryptedBelow(d, loanId, cleartexts) ==
    [d EXCEPT ![loanId - 1] =
        [monthlyPayment |-> cleartexts[1],
         totalInterest |-> cleartexts[2],
         payoffTime |-> cleartexts[3],
         isRevealed |-> TRUE]]

\* abi.decode and the four writes through dSchedule, on the mapping d
StoreDecrypted(d, loanId, cleartexts) ==
    [d EXCEPT ![loanId] =
        [monthlyPayment |-> cleartexts[1],
         totalInterest |-> cleartexts[2],
         payoffTime |-> cleartexts[3],
         isRevealed |-> TRUE]]

decryptAmortizationSchedule(requestId, cleartexts, proof) ==
    LET loanId == requestToLoanId[requestId]
    IN  IF decryptRequires(requestId, cleartexts, proof) # "ok"
        THEN Revert("decryptAmortizationSchedule", AnySender, requestId, ZeroAddress,
                    decryptRequires(requestId, cleartexts, proof))
        ELSE /\ decryptedSchedules' = StoreDecrypted(decryptedSchedules, loanId, cleartexts)
             /\ Done("decryptAmortizationSchedule", AnySender, requestId, ZeroAddress,
                     <<"ScheduleDecrypted", loanId>>, <<>>)
             /\ verifiedRequests' =
                  IF checkSignatures(requestId, cleartexts, proof)
                  THEN verifiedRequests \cup {requestId}
                  ELSE verifiedRequests
             /\ UNCHANGED <<loanCount, encryptedLoans, amortizationSchedules,
                            borrowerLoans, financialAdvisors, requestToLoanId,
                            platformAdmin, libraryVars, calculatedOnce>>

(* ------------------------------------------------------------------ *)
(* Views                                                              *)
(* ------------------------------------------------------------------ *)

getDecryptedSchedule(sender, loanId) ==
    LET s == decryptedSchedules[loanId]
    IN  /\ Done("getDecryptedSchedule", sender, loanId, ZeroAddress, <<>>,
                <<s.monthlyPayment, s.totalInterest, s.payoffTime, s.isRevealed>>)
        /\ UNCHANGED <<contractVars, libraryVars, historyVars>>

\* the outcome of a view: the value it returns, or the message of its revert
Returns(v) == [err |-> "ok", val |-> <<v>>]

Reverts(msg) == [err |-> msg, val |-> <<>>]

\* require(schedule.isCalculated, "Schedule not calculated")
NotCalculated(loanId) == ~amortizationSchedules[loanId].isCalculated

\* the monthly payment of a loan at a monthly rate (refinancing, sensitivity)
PaymentAtRate(loan, newMonthlyRate) ==
    FHE_div(
        FHE_mul(FHE_mul(loan.encryptedPrincipal, newMonthlyRate),
                FHE_pow(FHE_add(FHE_asEuint32(1), newMonthlyRate), loan.encryptedTerm)),
        FHE_sub(FHE_pow(FHE_add(FHE_asEuint32(1), newMonthlyRate), loan.encryptedTerm),
                FHE_asEuint32(1)))

calculateInterestSavings(loanId) ==
    LET loan == encryptedLoans[loanId]
        schedule == amortizationSchedules[loanId]
        baseTotalInterest == schedule.encryptedTotalInterest
        extraPayment == loan.encryptedExtraPayment
        effectivePayment == FHE_add(schedule.encryptedMonthlyPayment, extraPayment)
        payoffTime == schedule.encryptedPayoffTime
        totalPaymentWithExtra == FHE_mul(effectivePayment, payoffTime)
        totalInterestWithExtra == FHE_sub(totalPaymentWithExtra, loan.encryptedPrincipal)
    IN  IF NotCalculated(loanId) THEN Reverts("Schedule not calculated")
        ELSE Returns(FHE_sub(baseTotalInterest, totalInterestWithExtra))

calculateAffordability(loanId) ==
    LET loan == encryptedLoans[loanId]
        schedule == amortizationSchedules[loanId]
        estimatedIncome == FHE_div(loan.encryptedPrincipal, FHE_asEuint32(10))
        disposableIncome == FHE_sub(estimatedIncome, schedule.encryptedMonthlyPayment)
    IN  IF NotCalculated(loanId) THEN Reverts("Schedule not calculated")
        ELSE Returns(FHE_div(FHE_mul(disposableIncome, FHE_asEuint32(100)),
                             estimatedIncome))

optimizePaymentStrategy(loanId) ==
    LET loan == encryptedLoans[loanId]
        schedule == amortizationSchedules[loanId]
        savings == calculateInterestSavings(loanId).val[1]
        savingsRatio == FHE_div(FHE_mul(savings, FHE_asEuint32(100)),
                                schedule.encryptedTotalInterest)
    IN  IF NotCalculated(loanId) THEN Reverts("Schedule not calculated")
        ELSE Returns(FHE_cmux(FHE_gt(savingsRatio, FHE_asEuint32(15)),
                              FHE_add(loan.encryptedExtraPayment, FHE_asEuint32(100)),
                              loan.encryptedExtraPayment))

calculateDebtToIncome(loanId) ==
    LET loan == encryptedLoans[loanId]
        schedule == amortizationSchedules[loanId]
        estimatedIncome == FHE_div(loan.encryptedPrincipal, FHE_asEuint32(10))
    IN  IF NotCalculated(loanId) THEN Reverts("Schedule not calculated")
        ELSE Returns(FHE_div(FHE_mul(schedule.encryptedMonthlyPayment, FHE_asEuint32(100)),
                             estimatedIncome))

estimateEarlyPayoffImpact(loanId, additionalPayment) ==
    LET loan == encryptedLoans[loanId]
        schedule == amortizationSchedules[loanId]
        newExtraPayment == FHE_add(loan.encryptedExtraPayment, additionalPayment)
        effectivePayment == FHE_add(schedule.encryptedMonthlyPayment, newExtraPayment)
        newPayoffTime == FHE_div(loan.encryptedPrincipal, effectivePayment)
        totalPayment == FHE_mul(effectivePayment, newPayoffTime)
        totalInterest == FHE_sub(totalPayment, loan.encryptedPrincipal)
    IN  IF NotCalculated(loanId) THEN Reverts("Schedule not calculated")
        ELSE Returns(FHE_sub(schedule.encryptedTotalInterest, totalInterest))

calculateLoanHealth(loanId) ==
    LET dti == calculateDebtToIncome(loanId)
        affordability == calculateAffordability(loanId)
    IN  IF dti.err # "ok" THEN dti
        ELSE IF affordability.err # "ok" THEN affordability
        ELSE Returns(FHE_div(FHE_add(FHE_sub(FHE_asEuint32(100), dti.val[1]),
                                     affordability.val[1]),
                             FHE_asEuint32(2)))

calculateRefinancingBenefit(loanId, newRate) ==
    LET loan == encryptedLoans[loanId]
        schedule == amortizationSchedules[loanId]
        newMonthlyRate == FHE_div(newRate, FHE_asEuint32(1200))
        newMonthlyPayment == PaymentAtRate(loan, newMonthlyRate)
        newTotalInterest == FHE_sub(FHE_mul(newMonthlyPayment, loan.encryptedTerm),
                                    loan.encryptedPrincipal)
    IN  IF NotCalculated(loanId) THEN Reverts("Schedule not calculated")
        ELSE Returns(FHE_sub(schedule.encryptedTotalInterest, newTotalInterest))

calculatePaymentShockRisk(loanId) ==
    LET schedule == amortizationSchedules[loanId]
    IN  IF NotCalculated(loanId) THEN Reverts("Schedule not calculated")
        ELSE Returns(FHE_div(FHE_mul(schedule.encryptedMonthlyPayment, FHE_asEuint32(100)),
                             encryptedLoans[loanId].encryptedPrincipal))

optimizeForGoals(loanId, goalTime) ==
    LET loan == encryptedLoans[loanId]
    IN  IF NotCalculated(loanId) THEN Reverts("Schedule not calculated")
        ELSE Returns(FHE_div(loan.encryptedPrincipal, goalTime))

calculateInterestSensitivity(loanId) ==
    LET loan == encryptedLoans[loanId]
        schedule == amortizationSchedules[loanId]
        rateChange == FHE_asEuint32(100)
        newRate == FHE_add(loan.encryptedInterestRate, rateChange)
        newMonthlyRate == FHE_div(newRate, FHE_asEuint32(1200))
        newMonthlyPayment == PaymentAtRate(loan, newMonthlyRate)
    IN  IF NotCalculated(loanId) THEN Reverts("Schedule not calculated")
        ELSE Returns(FHE_sub(newMonthlyPayment, schedule.encryptedMonthlyPayment))

estimateTaxBenefit(loanId) ==
    LET schedule == amortizationSchedules[loanId]
    IN  IF NotCalculated(loanId) THEN Reverts("Schedule not calculated")
        ELSE Returns(FHE_div(schedule.encryptedTotalInterest, FHE_asEuint32(4)))

calculateLoanLiquidity(loanId) ==
    LET loan == encryptedLoans[loanId]
        schedule == amortizationSchedules[loanId]
    IN  IF NotCalculated(loanId) THEN Reverts("Schedule not calculated")
        ELSE Returns(FHE_div(loan.encryptedPrincipal,
                             FHE_mul(schedule.encryptedMonthlyPayment, FHE_asEuint32(6))))

detectOverleveraging(loanId) ==
    LET dti == calculateDebtToIncome(loanId)
    IN  IF dti.err # "ok" THEN dti
        ELSE Returns(FHE_gt(dti.val[1], FHE_asEuint32(40)))

calculateFinancialFlexibility(loanId) ==
    LET affordability == calculateAffordability(loanId)
        loanHealth == calculateLoanHealth(loanId)
    IN  IF affordability.err # "ok" THEN affordability
        ELSE IF loanHealth.err # "ok" THEN loanHealth
        ELSE Returns(FHE_div(FHE_add(affordability.val[1], loanHealth.val[1]),
                             FHE_asEuint32(2)))

optimizeForCashFlow(loanId) ==
    LET schedule == amortizationSchedules[loanId]
    IN  IF NotCalculated(loanId) THEN Reverts("Schedule not calculated")
        ELSE Returns(FHE_div(FHE_mul(schedule.encryptedMonthlyPayment, FHE_asEuint32(90)),
                             FHE_asEuint32(100)))

calculatePrepaymentRisk(loanId) ==
    LET loan == encryptedLoans[loanId]
    IN  Returns(FHE_div(FHE_mul(loan.encryptedExtraPayment, FHE_asEuint32(100)),
                        loan.encryptedPrincipal))

estimateNetCost(loanId) ==
    LET schedule == amortizationSchedules[loanId]
        taxBenefit == estimateTaxBenefit(loanId).val[1]
    IN  IF NotCalculated(loanId) THEN Reverts("Schedule not calculated")
        ELSE Returns(FHE_sub(schedule.encryptedTotalInterest, taxBenefit))

calculateLoanEfficiency(loanId) ==
    LET loan == encryptedLoans[loanId]
        schedule == amortizationSchedules[loanId]
    IN  IF NotCalculated(loanId) THEN Reverts("Schedule not calculated")
        ELSE Returns(FHE_div(FHE_mul(loan.encryptedPrincipal, FHE_asEuint32(100)),
                             FHE_add(loan.encryptedPrincipal,
                                     schedule.encryptedTotalInterest)))

\* generatePersonalizedAdvice testing the risk before the savings
generatePersonalizedAdviceRiskFirst(loanId) ==
    LET savings == calculateInterestSavings(loanId)
        risk == calculatePaymentShockRisk(loanId)
    IN  IF savings.err # "ok" THEN savings
        ELSE IF risk.err # "ok" THEN risk
        ELSE Returns(FHE_cmux(FHE_gt(risk.val[1], FHE_asEuint32(15)),
                              FHE_asEuint32(2),
                              FHE_cmux(FHE_gt(savings.val[1], FHE_asEuint32(1000)),
                                       FHE_asEuint32(1),
                                       FHE_asEuint32(3))))

generatePersonalizedAdvice(loanId) ==
    LET savings == calculateInterestSavings(loanId)
        risk == calculatePaymentShockRisk(loanId)
    IN  IF savings.err # "ok" THEN savings
        ELSE IF risk.err # "ok" THEN risk
        ELSE Returns(FHE_cmux(FHE_gt(savings.val[1], FHE_asEuint32(1000)),
                              FHE_asEuint32(1),
                              FHE_cmux(FHE_gt(risk.val[1], FHE_asEuint32(15)),
                                       FHE_asEuint32(2),
                                       FHE_asEuint32(3))))

calculateDebtSustainability(loanId) ==
    LET dti == calculateDebtToIncome(loanId)
    IN  IF dti.err # "ok" THEN dti
        ELSE Returns(FHE_sub(FHE_asEuint32(100), dti.val[1]))

estimateInflationImpact(loanId) ==
    LET schedule == amortizationSchedules[loanId]
    IN  IF NotCalculated(loanId) THEN Reverts("Schedule not calculated")
        ELSE Returns(FHE_div(schedule.encryptedTotalInterest, FHE_asEuint32(2)))

\* the analytic functions that take an encrypted argument besides the loan id
AnalyticFunctionsWithArgument ==
    {"estimateEarlyPayoffImpact", "calculateRefinancingBenefit", "optimizeForGoals"}

\* the read-only analytic functions of the contract
AnalyticFunctions ==
    {"calculateInterestSavings", "calculateAffordability", "optimizePaymentStrategy",
     "calculateDebtToIncome", "estimateEarlyPayoffImpact", "calculateLoanHealth",
     "calculateRefinancingBenefit", "calculatePaymentShockRisk", "optimizeForGoals",
     "calculateInterestSensitivity", "estimateTaxBenefit", "calculateLoanLiquidity",
     "detectOverleveraging", "calculateFinancialFlexibility", "optimizeForCashFlow",
     "calculatePrepaymentRisk", "estimateNetCost", "calculateLoanEfficiency",
     "generatePersonalizedAdvice", "calculateDebtSustainability",
     "estimateInflationImpact"}

\* the plaintexts of the encrypted argument a caller passes
AnalyticArguments(fn) ==
    IF fn \in AnalyticFunctionsWithArgument THEN {U32(0), U32(600)} ELSE {U32Zero}

\* the outcome of analytic function fn
AnalyticOutcome(fn, loanId, arg) ==
    CASE fn = "calculateInterestSavings" -> calculateInterestSavings(loanId)
      [] fn = "calculateAffordability" -> calculateAffordability(loanId)
      [] fn = "optimizePaymentStrategy" -> optimizePaymentStrategy(loanId)
      [] fn = "calculateDebtToIncome" -> calculateDebtToIncome(loanId)
      [] fn = "estimateEarlyPayoffImpact" -> estimateEarlyPayoffImpact(loanId, arg)
      [] fn = "calculateLoanHealth" -> calculateLoanHealth(loanId)
      [] fn = "calculateRefinancingBenefit" -> calculateRefinancingBenefit(loanId, arg)
      [] fn = "calculatePaymentShockRisk" -> calculatePaymentShockRisk(loanId)
      [] fn = "optimizeForGoals" -> optimizeForGoals(loanId, arg)
      [] fn = "calculateInterestSensitivity" -> calculateInterestSensitivity(loanId)
      [] fn = "estimateTaxBenefit" -> estimateTaxBenefit(loanId)
      [] fn = "calculateLoanLiquidity" -> calculateLoanLiquidity(loanId)
      [] fn = "detectOverleveraging" -> detectOverleveraging(loanId)
      [] fn = "calculateFinancialFlexibility" -> calculateFinancialFlexibility(loanId)
      [] fn = "optimizeForCashFlow" -> optimizeForCashFlow(loanId)
      [] fn = "calculatePrepaymentRisk" -> calculatePrepaymentRisk(loanId)
      [] fn = "estimateNetCost" -> estimateNetCost(loanId)
      [] fn = "calculateLoanEfficiency" -> calculateLoanEfficiency(loanId)
      [] fn = "generatePersonalizedAdvice" -> generatePersonalizedAdvice(loanId)
      [] fn = "calculateDebtSustainability" -> calculateDebtSustainability(loanId)
      [] fn = "estimateInflationImpact" -> estimateInflationImpact(loanId)

\* callAnalytic clearing the schedule's payment handle when it succeeds
callAnalyticClearingPayment(fn, loanId, arg) ==
    LET out == AnalyticOutcome(fn, loanId, arg)
    IN  /\ lastCall' = [op |-> fn, sender |-> AnySender, id |-> loanId,
                        addr |-> ZeroAddress, result |-> out.err,
                        emitted |-> <<>>, ret |-> out.val]
        /\ amortizationSchedules' =
               IF out.err = "ok"
               THEN [amortizationSchedules EXCEPT
                        ![loanId].encryptedMonthlyPayment = U32Zero]
               ELSE amortizationSchedules
        /\ UNCHANGED <<loanCount, encryptedLoans, decryptedSchedules, borrowerLoans,
                       financialAdvisors, requestToLoanId, platformAdmin,
                       libraryVars, historyVars, uiVars>>

\* a call of analytic function fn: a view, it writes nothing
callAnalytic(fn, loanId, arg) ==
    LET out == AnalyticOutcome(fn, loanId, arg)
    IN  /\ lastCall' = [op |-> fn, sender |-> AnySender, id |-> loanId,
                        addr |-> ZeroAddress, result |-> out.err,
                        emitted |-> <<>>, ret |-> out.val]
        /\ UNCHANGED <<contractVars, libraryVars, historyVars, uiVars>>

(* ------------------------------------------------------------------ *)
(* Web client                                                         *)
(* ------------------------------------------------------------------ *)

\* onWalletSelect: the provider is set before the accounts are requested;
\* when the wallet refuses, the catch leaves the account as it was
onWalletSelect(c, granted) ==
    /\ ~loading[c]
    /\ provider' = [provider EXCEPT ![c] = TRUE]
    /\ account' = IF granted THEN [account EXCEPT ![c] = WalletAccount(c)] ELSE account
    /\ UNCHANGED <<store, creating, transactionStatus, timers, pc, run,
                   finishedRuns, chainVars, listVars>>

\* the wallet's accountsChanged event: accounts[0] || "". The listener is
\* registered by onWalletSelect and never removed; the event is taken while
\* a provider is set, which is when submitSchedule can read the account.
accountsChanged(c, newAcc) ==
    /\ provider[c]
    /\ account' = [account EXCEPT ![c] = newAcc]
    /\ UNCHANGED <<store, provider, creating, transactionStatus,
                   timers, pc, run, finishedRuns, chainVars, listVars>>

onDisconnect(c) ==
    /\ ~loading[c]
    /\ account' = [account EXCEPT ![c] = ""]
    /\ provider' = [provider EXCEPT ![c] = FALSE]
    /\ UNCHANGED <<store, creating, transactionStatus, timers,
                   pc, run, finishedRuns, chainVars, listVars>>

\* the runs of submitSchedule started so far, finished or not
RunsStarted == BagCardinality(finishedRuns) + Cardinality({c \in Clients : pc[c] # "idle"})

\* finishedRuns with the run of client c that ends with status
RunRecorded(c, status) ==
    finishedRuns (+) SetToBag({[client |-> c, scheduleId |-> run[c].scheduleId,
                                status |-> status]})

\* submitSchedule up to its first await: the provider check, creating and
\* the pending overlay, the "encryption" of the form, getContractWithSigner.
\* account and newScheduleData are those of the render the click came from.
submitSchedule(c, form) ==
    /\ ~loading[c]
    /\ pc[c] = "idle"
    /\ RunsStarted < MaxRuns
    /\ provider[c]
    /\ creating' = [creating EXCEPT ![c] = TRUE]
    /\ transactionStatus' =
           [transactionStatus EXCEPT ![c] = [visible |-> TRUE, status |-> "pending"]]
    /\ run' = [run EXCEPT ![c] =
                  [NoRun EXCEPT !.owner = account[c],
                                !.newScheduleData = form,
                                !.encryptedData = <<"FHE-", btoa(form)>>]]
    /\ pc' = [pc EXCEPT ![c] = "getContractWithSigner"]
    /\ UNCHANGED <<store, account, provider, timers,
                   finishedRuns, chainVars, listVars>>

\* the catch and finally blocks of submitSchedule: the error overlay, the
\* 3000 ms timer, creating reset; what was written before stays written
submitScheduleFails(c) ==
    /\ transactionStatus' =
           [transactionStatus EXCEPT ![c] = [visible |-> TRUE, status |-> "error"]]
    /\ timers' = [timers EXCEPT ![c]["afterError"] = @ + 1]
    /\ creating' = [creating EXCEPT ![c] = FALSE]
    /\ finishedRuns' = RunRecorded(c, "error")
    /\ run' = [run EXCEPT ![c] = NoRun]
    /\ pc' = [pc EXCEPT ![c] = "idle"]
    /\ UNCHANGED <<store, account, provider, chainVars, listVars>>

\* the record submitSchedule builds for the form
ScheduleData(r, now) ==
    [data |-> r.encryptedData,
     timestamp |-> now,
     owner |-> r.owner,
     loanAmount |-> r.newScheduleData.loanAmount,
     term |-> parseInt(r.newScheduleData.term),
     status |-> "pending"]

\* getContractWithSigner resolves: without a contract the run fails; with
\* one the id and the record are built and the first setData is sent
submitScheduleGetContract(c, contract, scheduleId, now) ==
    /\ pc[c] = "getContractWithSigner"
    /\ IF ~contract
       THEN submitScheduleFails(c)
       ELSE /\ run' = [run EXCEPT ![c] =
                          [run[c] EXCEPT !.scheduleId = scheduleId,
                                         !.scheduleData = ScheduleData(run[c], now)]]
            /\ pc' = [pc EXCEPT ![c] = "setData schedule"]
            /\ UNCHANGED <<store, account, provider, creating,
                           transactionStatus, timers, finishedRuns, chainVars, listVars>>

\* contract.setData(`schedule_${scheduleId}`, ...) resolves or rejects;
\* then getData("schedule_keys") is sent
submitScheduleSetData(c, resolved) ==
    /\ pc[c] = "setData schedule"
    /\ IF ~resolved
       THEN submitScheduleFails(c)
       ELSE /\ store' = [store EXCEPT ![ScheduleKey(run[c].scheduleId)] =
                            toUtf8Bytes_JSON_stringify(run[c].scheduleData)]
            /\ pc' = [pc EXCEPT ![c] = "getData keys"]
            /\ UNCHANGED <<account, provider, creating,
                           transactionStatus, timers, run, finishedRuns, chainVars, listVars>>

\* the ids in keysBytes: none for empty bytes and when JSON.parse throws
ParsedKeys(keysBytes) ==
    IF Len(keysBytes) > 0 /\ Parses(keysBytes)
    THEN JSON_parse_toUtf8String(keysBytes) ELSE <<>>

\* getData("schedule_keys") resolves or rejects; the ids are parsed, the
\* new id is pushed and the second setData is sent
submitScheduleGetKeys(c, resolved) ==
    /\ pc[c] = "getData keys"
    /\ IF ~resolved
       THEN submitScheduleFails(c)
       ELSE /\ run' = [run EXCEPT ![c].keys =
                          Append(ParsedKeys(store[KeysKey]), run[c].scheduleId)]
            /\ pc' = [pc EXCEPT ![c] = "setData keys"]
            /\ UNCHANGED <<store, account, provider, creating,
                           transactionStatus, timers, finishedRuns, chainVars, listVars>>

\* contract.setData("schedule_keys", ...) resolves or rejects; on success
\* the success overlay is shown and loadSchedules is awaited
submitScheduleSetKeys(c, resolved) ==
    /\ pc[c] = "setData keys"
    /\ IF ~resolved
       THEN submitScheduleFails(c)
       ELSE /\ store' = [store EXCEPT ![KeysKey] =
                            toUtf8Bytes_JSON_stringify(run[c].keys)]
            /\ transactionStatus' =
                   [transactionStatus EXCEPT ![c] =
                       [visible |-> TRUE, status |-> "success"]]
            /\ pc' = [pc EXCEPT ![c] = "loadSchedules"]
            /\ isRefreshing' = [isRefreshing EXCEPT ![c] = TRUE]
            /\ tasks' = tasks (+) SetToBag({LoadTask(c, "submit", run[c].scheduleId)})
            /\ UNCHANGED <<account, provider, creating, timers, run, finishedRuns,
                           chainVars, schedules, loading, tasksStarted>>

\* the loadSchedules run submitSchedule awaits has returned (it catches its
\* own errors): the 2000 ms timer is armed and the finally block resets
\* creating
submitScheduleLoaded(c) ==
    /\ pc[c] = "loadSchedules"
    /\ \E t \in BagToSet(tasks) :
          /\ t.client = c /\ t.kind = "submit" /\ t.pc = "returned"
          /\ tasks' = tasks (-) SetToBag({t})
    /\ timers' = [timers EXCEPT ![c]["afterSuccess"] = @ + 1]
    /\ creating' = [creating EXCEPT ![c] = FALSE]
    /\ finishedRuns' = RunRecorded(c, "success")
    /\ run' = [run EXCEPT ![c] = NoRun]
    /\ pc' = [pc EXCEPT ![c] = "idle"]
    /\ UNCHANGED <<store, account, provider, transactionStatus, chainVars,
                   schedules, isRefreshing, loading, tasksStarted>>

\* the record stored under "schedule_<id>", as a reader of the store parses it
StoredRecord(id) == JSON_parse_toUtf8String(store[ScheduleKey(id)])

\* the run t replaced by the run u
TaskReplaced(t, u) == (tasks (-) SetToBag({t})) (+) SetToBag({u})

\* ListEntry without the default of a missing status
ListEntryKeepingStatus(key, scheduleData) ==
    [id |-> key,
     encryptedData |-> scheduleData.data,
     timestamp |-> scheduleData.timestamp,
     owner |-> scheduleData.owner,
     loanAmount |-> scheduleData.loanAmount,
     term |-> scheduleData.term,
     status |-> scheduleData.status]

\* what loadSchedules pushes to its list for the record parsed under key
ListEntry(key, scheduleData) ==
    [id |-> key,
     encryptedData |-> scheduleData.data,
     timestamp |-> scheduleData.timestamp,
     owner |-> scheduleData.owner,
     loanAmount |-> scheduleData.loanAmount,
     term |-> scheduleData.term,
     status |-> IF scheduleData.status = "" THEN "pending" ELSE scheduleData.status]

\* entry put into a list sorted by descending timestamp, after the entries
\* that do not come later in the order
RECURSIVE InsertedByTimestamp(_, _)
InsertedByTimestamp(entry, sorted) ==
    IF sorted = <<>> THEN <<entry>>
    ELSE IF Head(sorted).timestamp >= entry.timestamp
         THEN <<Head(sorted)>> \o InsertedByTimestamp(entry, Tail(sorted))
         ELSE <<entry>> \o sorted

\* list.sort((a, b) => b.timestamp - a.timestamp): stable, latest first
RECURSIVE SortedByTimestamp(_)
SortedByTimestamp(list) ==
    IF list = <<>> THEN <<>>
    ELSE InsertedByTimestamp(list[Len(list)], SortedByTimestamp(SubSeq(list, 1, Len(list) - 1)))

\* the Refresh button, enabled while no loadSchedules run is in progress
loadSchedules(c) ==
    /\ ~loading[c]
    /\ ~isRefreshing[c]
    /\ tasksStarted < MaxTasks
    /\ tasksStarted' = tasksStarted + 1
    /\ isRefreshing' = [isRefreshing EXCEPT ![c] = TRUE]
    /\ tasks' = tasks (+) SetToBag({LoadTask(c, "load", "")})
    /\ UNCHANGED <<store, clientVars, finishedRuns, chainVars, schedules, loading>>

\* loadSchedulesReturns without the finally block
loadSchedulesReturnsNoFinally(t, rejected, displayed) ==
    /\ schedules' = displayed
    /\ UNCHANGED <<isRefreshing, loading>>
    /\ tasks' = TaskReplaced(t, [t EXCEPT !.pc = "returned", !.keys = <<>>,
                                          !.list = <<>>, !.rejected = rejected])

\* loadSchedules returns, through its finally block, with the displayed
\* lists displayed
loadSchedulesReturns(t, rejected, displayed) ==
    /\ schedules' = displayed
    /\ isRefreshing' = [isRefreshing EXCEPT ![t.client] = FALSE]
    /\ loading' = [loading EXCEPT ![t.client] = FALSE]
    /\ tasks' = TaskReplaced(t, [t EXCEPT !.pc = "returned", !.keys = <<>>,
                                          !.list = <<>>, !.rejected = rejected])

\* getContractReadOnly resolves: without a contract loadSchedules returns
loadSchedulesGetContract(t, contract) ==
    /\ t.pc = "getContractReadOnly"
    /\ IF ~contract
       THEN loadSchedulesReturns(t, FALSE, schedules)
       ELSE /\ tasks' = TaskReplaced(t, [t EXCEPT !.pc = "isAvailable"])
            /\ UNCHANGED <<schedules, isRefreshing, loading>>
    /\ UNCHANGED <<store, clientVars, finishedRuns, chainVars, tasksStarted>>

\* contract.isAvailable() resolves with true, or with false or an error, on
\* which loadSchedules returns
loadSchedulesIsAvailable(t, isAvailable) ==
    /\ t.pc = "isAvailable"
    /\ IF ~isAvailable
       THEN loadSchedulesReturns(t, FALSE, schedules)
       ELSE /\ tasks' = TaskReplaced(t, [t EXCEPT !.pc = "getData keys"])
            /\ UNCHANGED <<schedules, isRefreshing, loading>>
    /\ UNCHANGED <<store, clientVars, finishedRuns, chainVars, tasksStarted>>

\* getData("schedule_keys") resolves or rejects; without keys the empty
\* list is displayed at once
loadSchedulesGetKeys(t, resolved) ==
    /\ t.pc = "getData keys"
    /\ IF ~resolved
       THEN loadSchedulesReturns(t, TRUE, schedules)
       ELSE IF ParsedKeys(store[KeysKey]) = <<>>
       THEN loadSchedulesReturns(t, FALSE, [schedules EXCEPT ![t.client] = <<>>])
       ELSE /\ tasks' = TaskReplaced(t, [t EXCEPT !.pc = "getData record",
                                                  !.keys = ParsedKeys(store[KeysKey])])
            /\ UNCHANGED <<schedules, isRefreshing, loading>>
    /\ UNCHANGED <<store, clientVars, finishedRuns, chainVars, tasksStarted>>

\* getData(`schedule_${key}`) for the next key resolves or rejects: a record
\* that is there and parses is pushed; after the last key the sorted list is
\* displayed
loadSchedulesGetRecord(t, resolved) ==
    /\ t.pc = "getData record"
    /\ LET key == Head(t.keys)
           list == IF /\ resolved
                      /\ Len(store[ScheduleKey(key)]) > 0
                      /\ Parses(store[ScheduleKey(key)])
                   THEN Append(t.list, ListEntry(key, StoredRecord(key)))
                   ELSE t.list
           rejected == t.rejected \/ ~resolved
       IN  IF Tail(t.keys) = <<>>
           THEN loadSchedulesReturns(t, rejected,
                                     [schedules EXCEPT ![t.client] =
                                         SortedByTimestamp(list)])
           ELSE /\ tasks' = TaskReplaced(t, [t EXCEPT !.keys = Tail(t.keys),
                                                      !.list = list,
                                                      !.rejected = rejected])
                /\ UNCHANGED <<schedules, isRefreshing, loading>>
    /\ UNCHANGED <<store, clientVars, finishedRuns, chainVars, tasksStarted>>

\* a loadSchedules run called on its own (mount effect, Refresh) has returned
loadSchedulesDone(t) ==
    /\ t.kind = "load"
    /\ t.pc = "returned"
    /\ tasks' = tasks (-) SetToBag({t})
    /\ UNCHANGED <<store, clientVars, finishedRuns, chainVars, schedules,
                   isRefreshing, loading, tasksStarted>>

\* isOwner, on lower-case addresses
isOwner(c, address) == account[c] = address

\* the status activateSchedule and completeSchedule write
UpdatedStatus(kind) == IF kind = "activate" THEN "active" ELSE "completed"

\* the status the button of the handler kind is rendered for
ButtonStatus(kind) == IF kind = "activate" THEN "pending" ELSE "active"

\* client c displays the Activate (kind "activate") or Complete (kind
\* "complete") button of schedule id
ButtonShown(c, kind, id) ==
    \E i \in 1..Len(schedules[c]) :
        /\ schedules[c][i].id = id
        /\ isOwner(c, schedules[c][i].owner)
        /\ schedules[c][i].status = ButtonStatus(kind)

\* activateSchedule and completeSchedule up to their first await: the
\* pending overlay. The 3000 ms delay touches nothing, so the run waits for
\* it and for getContractWithSigner in one step.
updateScheduleStarts(c, kind, id) ==
    /\ tasksStarted' = tasksStarted + 1
    /\ transactionStatus' =
           [transactionStatus EXCEPT ![c] = [visible |-> TRUE, status |-> "pending"]]
    /\ tasks' = tasks (+) SetToBag({[LoadTask(c, kind, id) EXCEPT
                                        !.pc = "getContractWithSigner"]})
    /\ UNCHANGED <<store, account, provider, creating, timers, pc, run,
                   finishedRuns, chainVars, schedules, isRefreshing, loading>>

\* a click on the Activate button of the schedule, past the provider check
activateSchedule(c, scheduleId) ==
    /\ ~loading[c]
    /\ ButtonShown(c, "activate", scheduleId)
    /\ provider[c]
    /\ tasksStarted < MaxTasks
    /\ updateScheduleStarts(c, "activate", scheduleId)

\* a click on the Complete button of the schedule, past the provider check
completeSchedule(c, scheduleId) ==
    /\ ~loading[c]
    /\ ButtonShown(c, "complete", scheduleId)
    /\ provider[c]
    /\ tasksStarted < MaxTasks
    /\ updateScheduleStarts(c, "complete", scheduleId)

\* the catch block of activateSchedule and completeSchedule: the error
\* overlay and the 3000 ms timer
updateScheduleFails(t) ==
    /\ transactionStatus' =
           [transactionStatus EXCEPT ![t.client] = [visible |-> TRUE, status |-> "error"]]
    /\ timers' = [timers EXCEPT ![t.client]["afterError"] = @ + 1]
    /\ tasks' = tasks (-) SetToBag({t})
    /\ UNCHANGED <<store, account, provider, creating, pc, run, finishedRuns,
                   chainVars, schedules, isRefreshing, loading, tasksStarted>>

\* getContractWithSigner resolves: without a contract the run fails; with
\* one getData(`schedule_${scheduleId}`) is sent
updateScheduleGetContract(t, contract) ==
    /\ t.pc = "getContractWithSigner"
    /\ IF ~contract
       THEN updateScheduleFails(t)
       ELSE /\ tasks' = TaskReplaced(t, [t EXCEPT !.pc = "getData schedule"])
            /\ UNCHANGED <<store, clientVars, finishedRuns, chainVars, schedules,
                           isRefreshing, loading, tasksStarted>>

\* getData(`schedule_${scheduleId}`) resolves or rejects; empty bytes throw
\* "Schedule not found" and JSON.parse may throw; the record read is kept
\* and setData is sent with its copy under the new status
updateScheduleGetData(t, resolved) ==
    /\ t.pc = "getData schedule"
    /\ IF \/ ~resolved
          \/ Len(store[ScheduleKey(t.scheduleId)]) = 0
          \/ ~Parses(store[ScheduleKey(t.scheduleId)])
       THEN updateScheduleFails(t)
       ELSE /\ tasks' = TaskReplaced(t, [t EXCEPT !.pc = "setData schedule",
                                                  !.scheduleData = StoredRecord(t.scheduleId)])
            /\ UNCHANGED <<store, clientVars, finishedRuns, chainVars, schedules,
                           isRefreshing, loading, tasksStarted>>

\* setData(`schedule_${scheduleId}`, updatedSchedule) resolves or rejects; on
\* success the success overlay is shown and loadSchedules is awaited
updateScheduleSetData(t, resolved) ==
    /\ t.pc = "setData schedule"
    /\ IF ~resolved
       THEN updateScheduleFails(t)
       ELSE /\ store' = [store EXCEPT ![ScheduleKey(t.scheduleId)] =
                            toUtf8Bytes_JSON_stringify(
                                [t.scheduleData EXCEPT !.status = UpdatedStatus(t.kind)])]
            /\ transactionStatus' =
                   [transactionStatus EXCEPT ![t.client] =
                       [visible |-> TRUE, status |-> "success"]]
            /\ isRefreshing' = [isRefreshing EXCEPT ![t.client] = TRUE]
            /\ tasks' = TaskReplaced(t, LoadTask(t.client, t.kind, t.scheduleId))
            /\ UNCHANGED <<account, provider, creating, timers, pc, run,
                           finishedRuns, chainVars, schedules, loading, tasksStarted>>

\* the loadSchedules run activateSchedule or completeSchedule awaits has
\* returned: the 2000 ms timer is armed
updateScheduleLoaded(t) ==
    /\ t.kind \in {"activate", "complete"}
    /\ t.pc = "returned"
    /\ timers' = [timers EXCEPT ![t.client]["afterSuccess"] = @ + 1]
    /\ tasks' = tasks (-) SetToBag({t})
    /\ UNCHANGED <<store, account, provider, creating, transactionStatus, pc, run,
                   finishedRuns, chainVars, schedules, isRefreshing, loading,
                   tasksStarted>>

\* a setTimeout callback armed by a handler runs: the overlay is hidden
timerFires(c, kind) ==
    /\ timers[c][kind] > 0
    /\ timers' = [timers EXCEPT ![c][kind] = @ - 1]
    /\ transactionStatus' =
           [transactionStatus EXCEPT ![c] = [visible |-> FALSE, status |-> "pending"]]
    /\ UNCHANGED <<store, account, provider, creating, pc, run,
                   finishedRuns, chainVars, listVars>>

(* ------------------------------------------------------------------ *)
(* Specifications                                                     *)
(* ------------------------------------------------------------------ *)

\* no call is in progress: the next one may be sent
Idle == lastCall.op = "none"

\* the outcome of the call has been read; the next call may start
Return ==
    /\ ~Idle
    /\ lastCall' = NoCall
    /\ UNCHANGED <<contractVars, libraryVars, historyVars, uiVars>>

\* the transactions, one at a time, each ending in success or revert
Next ==
    \/ \E sender \in Addr, advisor \in Advisors :
          Idle /\ authorizeAdvisor(sender, advisor)
    \/ \E sender \in Borrowers, in \in LoanInputs, now \in BlockTimes :
          Idle /\ submitEncryptedLoan(sender, in, now)
    \/ \E sender \in Addr, loanId \in LoanIds :
          Idle /\ calculateAmortization(sender, loanId)
    \/ \E sender \in Addr, loanId \in LoanIds :
          Idle /\ requestScheduleDecryption(sender, loanId)
    \/ \E requestId \in RequestIds :
          \E cleartexts \in CleartextChoices(requestId) :
              \E proof \in Proofs(requestId, cleartexts) :
                  Idle /\ decryptAmortizationSchedule(requestId, cleartexts, proof)
    \/ Return

Spec == Init /\ [][Next]_vars

\* plaintexts of submitted handles: zero, ordinary and extreme values
AmortizationInputs ==
    [principal : {U32Zero, U32(10000), U32Max},
     rate : {U32(0), U32(500), U32(1200), U32(2400)},
     term : {U32(0), U32(3), U32(36), U32(601)},
     extra : {U32(0), U32(100)}]

\* the loan submitLoan stores under id for sender with the handles in
SubmittedLoan(id, sender, in, now) ==
    [id |-> id, borrower |-> sender,
     encryptedPrincipal |-> in.principal,
     encryptedInterestRate |-> in.rate,
     encryptedTerm |-> in.term,
     encryptedExtraPayment |-> in.extra,
     timestamp |-> now]

\* the state after the admin authorised an advisor and a borrower submitted
\* loans 1 and 2, the second with the handles of the first or with others
InitAmortization ==
    /\ loanCount = 2
    /\ \E in1 \in AmortizationInputs, in2 \in LoanInputs, same \in BOOLEAN,
          now \in BlockTimes :
          encryptedLoans =
              [i \in LoanIds |->
                  IF i = 1 THEN SubmittedLoan(1, "alice", in1, now)
                  ELSE IF i = 2
                       THEN SubmittedLoan(2, "alice", IF same THEN in1 ELSE in2, now)
                       ELSE EmptyLoan]
    /\ amortizationSchedules = [i \in LoanIds |-> EmptySchedule]
    /\ decryptedSchedules = [i \in LoanIds |-> EmptyDecrypted]
    /\ borrowerLoans = [a \in Addr |-> IF a = "alice" THEN <<1, 2>> ELSE <<>>]
    /\ financialAdvisors = [a \in Addr |-> a \in Advisors]
    /\ requestToLoanId = [r \in RequestIds |-> 0]
    /\ platformAdmin = Deployer
    /\ counterRequest = 0
    /\ divZeroResult \in Sentinels
    /\ lastCall = NoCall
    /\ calculatedOnce = {}
    /\ verifiedRequests = {}
    /\ InitUI

\* the calculations of the submitted loans
NextAmortization ==
    \/ \E sender \in Addr, loanId \in LoanIds :
          Idle /\ calculateAmortization(sender, loanId)
    \/ Return

SpecAmortization == InitAmortization /\ [][NextAmortization]_vars

\* the call in progress completed
Succeeded == lastCall'.result = "ok"

\* the transactions that complete (a revert writes nothing, so the contract
\* reaches the same states), and the views called between them
NextViews ==
    \/ \E sender \in Addr, advisor \in Advisors :
          Idle /\ authorizeAdvisor(sender, advisor) /\ Succeeded
    \/ \E sender \in Borrowers, in \in LoanInputs, now \in BlockTimes :
          Idle /\ submitEncryptedLoan(sender, in, now)
    \/ \E sender \in Addr, loanId \in LoanIds :
          Idle /\ calculateAmortization(sender, loanId) /\ Succeeded
    \/ \E sender \in Addr, loanId \in LoanIds :
          Idle /\ requestScheduleDecryption(sender, loanId) /\ Succeeded
    \/ \E requestId \in RequestIds :
          \E cleartexts \in CleartextChoices(requestId) :
              \E proof \in Proofs(requestId, cleartexts) :
                  Idle /\ decryptAmortizationSchedule(requestId, cleartexts, proof)
                       /\ Succeeded
    \/ \E sender \in Addr, loanId \in LoanIds :
          Idle /\ getDecryptedSchedule(sender, loanId)
    \/ \E fn \in AnalyticFunctions, loanId \in LoanIds :
          \E arg \in AnalyticArguments(fn) :
              Idle /\ callAnalytic(fn, loanId, arg)
    \/ Return

SpecViews == Init /\ [][NextViews]_vars

\* the functions generatePersonalizedAdvice is composed of, and itself
AdviceFunctions ==
    {"calculateInterestSavings", "calculatePaymentShockRisk",
     "generatePersonalizedAdvice"}

\* calculateAmortization on the submitted loans and the advice views on the
\* schedules it stores
NextAdvice ==
    \/ \E sender \in Addr, loanId \in LoanIds :
          Idle /\ calculateAmortization(sender, loanId) /\ Succeeded
    \/ \E fn \in AdviceFunctions, loanId \in LoanIds :
          Idle /\ callAnalytic(fn, loanId, U32Zero)
    \/ Return

SpecAdvice == InitAmortization /\ [][NextAdvice]_vars

\* the wallet accounts a browser's wallet may switch to, "" for none
Accounts == {"", "alice", "bob"}

\* the web clients from their opening, on the empty store: the
\* loadSchedules run of the mount effect, wallet events and the Refresh
\* button
NextMount ==
    \/ \E c \in Clients, granted \in BOOLEAN : onWalletSelect(c, granted)
    \/ \E c \in Clients, newAcc \in Accounts : accountsChanged(c, newAcc)
    \/ \E c \in Clients : onDisconnect(c)
    \/ \E c \in Clients : loadSchedules(c)
    \/ \E t \in BagToSet(tasks), contract \in BOOLEAN : loadSchedulesGetContract(t, contract)
    \/ \E t \in BagToSet(tasks), isAvailable \in BOOLEAN :
          loadSchedulesIsAvailable(t, isAvailable)
    \/ \E t \in BagToSet(tasks), resolved \in BOOLEAN : loadSchedulesGetKeys(t, resolved)
    \/ \E t \in BagToSet(tasks) : loadSchedulesDone(t)

SpecMount == Init /\ [][NextMount]_vars

\* the web clients after the loadSchedules run of each mount effect returned
\* on the empty store and each user connected the wallet
ConnectedClients ==
    /\ store = [k \in StoreKeys |-> EmptyBytes]
    /\ account = [c \in Clients |-> WalletAccount(c)]
    /\ provider = [c \in Clients |-> TRUE]
    /\ creating = [c \in Clients |-> FALSE]
    /\ transactionStatus = [c \in Clients |-> [visible |-> FALSE, status |-> "pending"]]
    /\ timers = [c \in Clients |-> [k \in TimerKinds |-> 0]]
    /\ pc = [c \in Clients |-> "idle"]
    /\ run = [c \in Clients |-> NoRun]
    /\ finishedRuns = EmptyBag
    /\ schedules = [c \in Clients |-> <<>>]
    /\ isRefreshing = [c \in Clients |-> FALSE]
    /\ loading = [c \in Clients |-> FALSE]
    /\ tasks = EmptyBag
    /\ tasksStarted = 0

\* the connected web clients: submitSchedule runs interleaved at their
\* awaits, each await resolving or rejecting, the loadSchedules runs they
\* await, and the timers they arm
NextUI ==
    \/ \E c \in Clients, form \in FormInputs : submitSchedule(c, form)
    \/ \E c \in Clients, contract \in BOOLEAN, scheduleId \in ScheduleIds,
          now \in UnixTimes : submitScheduleGetContract(c, contract, scheduleId, now)
    \/ \E c \in Clients, resolved \in BOOLEAN : submitScheduleSetData(c, resolved)
    \/ \E c \in Clients, resolved \in BOOLEAN : submitScheduleGetKeys(c, resolved)
    \/ \E c \in Clients, resolved \in BOOLEAN : submitScheduleSetKeys(c, resolved)
    \/ \E c \in Clients : submitScheduleLoaded(c)
    \/ \E t \in BagToSet(tasks), contract \in BOOLEAN : loadSchedulesGetContract(t, contract)
    \/ \E t \in BagToSet(tasks), isAvailable \in BOOLEAN :
          loadSchedulesIsAvailable(t, isAvailable)
    \/ \E t \in BagToSet(tasks), resolved \in BOOLEAN : loadSchedulesGetKeys(t, resolved)
    \/ \E t \in BagToSet(tasks), resolved \in BOOLEAN : loadSchedulesGetRecord(t, resolved)
    \/ \E c \in Clients, kind \in TimerKinds : timerFires(c, kind)

\* the contract deployed, the web clients opened and connected
InitConnected == InitContract /\ ConnectedClients

SpecUI == InitConnected /\ [][NextUI]_vars

\* the state after the owner submitted schedule s1 from one browser and
\* opened the list in a second browser with the same wallet account: the
\* record is stored and listed, both browsers display it as pending
PendingSchedule ==
    /\ \E form \in FormInputs, now \in UnixTimes :
          LET record == ScheduleData([NoRun EXCEPT !.owner = "alice",
                                                  !.newScheduleData = form,
                                                  !.encryptedData = <<"FHE-", btoa(form)>>],
                                     now)
          IN  /\ store = [k \in StoreKeys |->
                            IF k = KeysKey THEN toUtf8Bytes_JSON_stringify(<<"s1">>)
                            ELSE IF k = ScheduleKey("s1")
                                 THEN toUtf8Bytes_JSON_stringify(record)
                                 ELSE EmptyBytes]
              /\ schedules = [c \in Clients |-> <<ListEntry("s1", record)>>]
    /\ account = [c \in Clients |-> "alice"]
    /\ provider = [c \in Clients |-> TRUE]
    /\ creating = [c \in Clients |-> FALSE]
    /\ transactionStatus = [c \in Clients |-> [visible |-> FALSE, status |-> "pending"]]
    /\ timers = [c \in Clients |-> [k \in TimerKinds |-> 0]]
    /\ pc = [c \in Clients |-> "idle"]
    /\ run = [c \in Clients |-> NoRun]
    /\ finishedRuns = SetToBag({[client |-> "c1", scheduleId |-> "s1",
                                 status |-> "success"]})
    /\ isRefreshing = [c \in Clients |-> FALSE]
    /\ loading = [c \in Clients |-> FALSE]
    /\ tasks = EmptyBag
    /\ tasksStarted = 0

\* activateSchedule and completeSchedule runs interleaved at their awaits,
\* each await resolving or rejecting, the loadSchedules runs they await, and
\* the timers they arm
NextStatus ==
    \/ \E c \in Clients, scheduleId \in ScheduleIds : activateSchedule(c, scheduleId)
    \/ \E c \in Clients, scheduleId \in ScheduleIds : completeSchedule(c, scheduleId)
    \/ \E t \in BagToSet(tasks), contract \in BOOLEAN : updateScheduleGetContract(t, contract)
    \/ \E t \in BagToSet(tasks), resolved \in BOOLEAN : updateScheduleGetData(t, resolved)
    \/ \E t \in BagToSet(tasks), resolved \in BOOLEAN : updateScheduleSetData(t, resolved)
    \/ \E t \in BagToSet(tasks) : updateScheduleLoaded(t)
    \/ \E t \in BagToSet(tasks), contract \in BOOLEAN : loadSchedulesGetContract(t, contract)
    \/ \E t \in BagToSet(tasks), isAvailable \in BOOLEAN :
          loadSchedulesIsAvailable(t, isAvailable)
    \/ \E t \in BagToSet(tasks), resolved \in BOOLEAN : loadSchedulesGetKeys(t, resolved)
    \/ \E t \in BagToSet(tasks), resolved \in BOOLEAN : loadSchedulesGetRecord(t, resolved)
    \/ \E c \in Clients, kind \in TimerKinds : timerFires(c, kind)

\* the contract deployed, a schedule submitted and displayed
InitStatus == InitContract /\ PendingSchedule

SpecStatus == InitStatus /\ [][NextStatus]_vars

\* the timestamps of the records found in the store
StoredTimes == {1700000000, 1700000060}

\* what may be found under "schedule_<id>": nothing, bytes that do not
\* parse, or a record, written by this client or by another writer of the
\* store, whose status may be missing (read as "")
StoredRecordBytes ==
    {EmptyBytes, NotJSON}
    \cup {toUtf8Bytes_JSON_stringify(
              [data |-> <<"FHE-", btoa(form)>>, timestamp |-> now, owner |-> "alice",
               loanAmount |-> form.loanAmount, term |-> parseInt(form.term),
               status |-> status]) :
              form \in {CHOOSE f \in FormInputs : TRUE}, now \in StoredTimes,
              status \in {"", "active"}}

\* what may be found under "schedule_keys"
StoredKeysBytes ==
    {EmptyBytes, NotJSON}
    \cup {toUtf8Bytes_JSON_stringify(keys) :
              keys \in {<<>>, <<"s1">>, <<"s1", "s2">>, <<"s2", "s1">>}}

\* the mounted and connected web clients in front of a store with any of
\* these contents
InitLoad ==
    /\ InitContract
    /\ \E keysBytes \in StoredKeysBytes, records \in [ScheduleIds -> StoredRecordBytes] :
          store = [k \in StoreKeys |-> IF k = KeysKey THEN keysBytes ELSE records[k[2]]]
    /\ account = [c \in Clients |-> WalletAccount(c)]
    /\ provider = [c \in Clients |-> TRUE]
    /\ creating = [c \in Clients |-> FALSE]
    /\ transactionStatus = [c \in Clients |-> [visible |-> FALSE, status |-> "pending"]]
    /\ timers = [c \in Clients |-> [k \in TimerKinds |-> 0]]
    /\ pc = [c \in Clients |-> "idle"]
    /\ run = [c \in Clients |-> NoRun]
    /\ finishedRuns = EmptyBag
    /\ schedules = [c \in Clients |-> <<>>]
    /\ isRefreshing = [c \in Clients |-> FALSE]
    /\ loading = [c \in Clients |-> FALSE]
    /\ tasks = EmptyBag
    /\ tasksStarted = 0

\* the loadSchedules runs the Refresh button starts, each await resolving or
\* rejecting
NextLoad ==
    \/ \E c \in Clients : loadSchedules(c)
    \/ \E t \in BagToSet(tasks), contract \in BOOLEAN : loadSchedulesGetContract(t, contract)
    \/ \E t \in BagToSet(tasks), isAvailable \in BOOLEAN :
          loadSchedulesIsAvailable(t, isAvailable)
    \/ \E t \in BagToSet(tasks), resolved \in BOOLEAN : loadSchedulesGetKeys(t, resolved)
    \/ \E t \in BagToSet(tasks), resolved \in BOOLEAN : loadSchedulesGetRecord(t, resolved)
    \/ \E t \in BagToSet(tasks) : loadSchedulesDone(t)

SpecLoad == InitLoad /\ [][NextLoad]_vars

\* the form and the id of the runs followed to their end
RunForms == {CHOOSE form \in FormInputs : TRUE}

RunIds == {"s1"}

\* the web clients from their opening to the end of their submitSchedule
\* runs: the loadSchedules run of the mount effect, the wallet connected,
\* submitSchedule runs and the loadSchedules runs they await
NextRuns ==
    \/ \E c \in Clients, granted \in BOOLEAN : onWalletSelect(c, granted)
    \/ \E c \in Clients, form \in RunForms : submitSchedule(c, form)
    \/ \E c \in Clients, contract \in BOOLEAN, scheduleId \in RunIds,
          now \in UnixTimes : submitScheduleGetContract(c, contract, scheduleId, now)
    \/ \E c \in Clients, resolved \in BOOLEAN : submitScheduleSetData(c, resolved)
    \/ \E c \in Clients, resolved \in BOOLEAN : submitScheduleGetKeys(c, resolved)
    \/ \E c \in Clients, resolved \in BOOLEAN : submitScheduleSetKeys(c, resolved)
    \/ \E c \in Clients : submitScheduleLoaded(c)
    \/ \E t \in BagToSet(tasks), contract \in BOOLEAN : loadSchedulesGetContract(t, contract)
    \/ \E t \in BagToSet(tasks), isAvailable \in BOOLEAN :
          loadSchedulesIsAvailable(t, isAvailable)
    \/ \E t \in BagToSet(tasks), resolved \in BOOLEAN : loadSchedulesGetKeys(t, resolved)
    \/ \E t \in BagToSet(tasks), resolved \in BOOLEAN : loadSchedulesGetRecord(t, resolved)

\* the continuation of an await of client c: the promise a submitSchedule or
\* loadSchedules run of c waits for settles, resolved or rejected
AwaitSettles(c) ==
    \/ \E contract \in BOOLEAN, scheduleId \in RunIds, now \in UnixTimes :
          submitScheduleGetContract(c, contract, scheduleId, now)
    \/ \E resolved \in BOOLEAN : submitScheduleSetData(c, resolved)
    \/ \E resolved \in BOOLEAN : submitScheduleGetKeys(c, resolved)
    \/ \E resolved \in BOOLEAN : submitScheduleSetKeys(c, resolved)
    \/ submitScheduleLoaded(c)
    \/ \E t \in BagToSet(tasks) :
          /\ t.client = c
          /\ \/ \E contract \in BOOLEAN : loadSchedulesGetContract(t, contract)
             \/ \E isAvailable \in BOOLEAN : loadSchedulesIsAvailable(t, isAvailable)
             \/ \E resolved \in BOOLEAN : loadSchedulesGetKeys(t, resolved)
             \/ \E resolved \in BOOLEAN : loadSchedulesGetRecord(t, resolved)

\* the contract deployed and the web clients opened; the contract is not
\* called, one result of a division by zero is followed
InitRuns == Init /\ divZeroResult = U32Zero

\* every promise awaited settles and the event loop runs its continuation
SpecRuns ==
    InitRuns /\ [][NextRuns]_vars /\ \A c \in Clients : WF_vars(AwaitSettles(c))

(* ------------------------------------------------------------------ *)
(* Properties                                                         *)
(* ------------------------------------------------------------------ *)

\* the step is a call of handler op
Calls(op) == Idle /\ lastCall'.op = op

\* the KMS's signature of a request id and cleartexts
ValidProof(requestId, cleartexts) ==
    [signer |-> "KMS", requestId |-> requestId, cleartexts |-> cleartexts]

\* C1: calculateAmortization succeeds at most once per loan id: a call that
\* succeeds is for an id no earlier call succeeded for.
C1_CalculatedAtMostOnce ==
    [][(Calls("calculateAmortization") /\ lastCall'.result = "ok")
          => lastCall'.id \notin calculatedOnce]_vars

\* C2: once a loan id's schedule is calculated, no step clears isCalculated
\* or overwrites its three handles.
C2_ScheduleWrittenOnce ==
    [][\A id \in LoanIds :
          amortizationSchedules[id].isCalculated
              => amortizationSchedules'[id] = amortizationSchedules[id]]_vars

\* C3: once the schedule of a request's loan is revealed it stays as revealed,
\* the request keeps its loan, and every decryptAmortizationSchedule call with
\* that request id, whatever its cleartexts and proof, fails with
\* 'Already decrypted' and changes nothing the contract stores.
C3_ReplayAlreadyDecrypted ==
    [][/\ \A id \in LoanIds :
             decryptedSchedules[id].isRevealed
                 => decryptedSchedules'[id] = decryptedSchedules[id]
       /\ \A r \in RequestIds :
             requestToLoanId[r] # 0 => requestToLoanId'[r] = requestToLoanId[r]
       /\ (/\ Calls("decryptAmortizationSchedule")
           /\ requestToLoanId[lastCall'.id] # 0
           /\ decryptedSchedules[requestToLoanId[lastCall'.id]].isRevealed)
              => /\ lastCall'.result = "Already decrypted"
                 /\ UNCHANGED <<contractVars, libraryVars>>]_vars

\* C3 witness: the only request ever issued is replayed after it resolved.
C3_Witness ==
    /\ lastCall.op = "decryptAmortizationSchedule"
    /\ lastCall.result = "Already decrypted"
    /\ counterRequest = 1
    /\ decryptedSchedules[requestToLoanId[lastCall.id]].isRevealed

\* C4: requestScheduleDecryption sent by anyone but the borrower recorded for
\* the loan id (the zero address for an id never submitted) fails with
\* 'Not borrower' and changes nothing the contract or the library stores.
C4_NotBorrower ==
    [][(/\ Calls("requestScheduleDecryption")
        /\ lastCall'.sender # encryptedLoans[lastCall'.id].borrower)
          => /\ lastCall'.result = "Not borrower"
             /\ UNCHANGED <<contractVars, libraryVars>>]_vars

\* C4 witness: a stranger asked for a submitted loan whose schedule is
\* calculated and not yet revealed.
C4_Witness ==
    /\ lastCall.op = "requestScheduleDecryption"
    /\ lastCall.result = "Not borrower"
    /\ encryptedLoans[lastCall.id].borrower \in Borrowers
    /\ amortizationSchedules[lastCall.id].isCalculated
    /\ ~decryptedSchedules[lastCall.id].isRevealed

\* C4 witness of the other case: the id was never submitted.
C4_WitnessNeverSubmitted ==
    /\ lastCall.op = "requestScheduleDecryption"
    /\ lastCall.result = "Not borrower"
    /\ lastCall.id > loanCount

\* C5: a getDecryptedSchedule call that returns a revealed schedule was sent
\* by the borrower of the loan.
C5_OnlyBorrowerReads ==
    (/\ lastCall.op = "getDecryptedSchedule"
     /\ lastCall.result = "ok"
     /\ decryptedSchedules[lastCall.id].isRevealed)
        => lastCall.sender = encryptedLoans[lastCall.id].borrower

\* C6: after decryptAmortizationSchedule succeeds with the true decryptions
\* for the loan 10000 / 500 / 36 / 0, the schedule is revealed and its
\* monthlyPayment is the annuity payment 299, within one unit of rounding.
C6_EndToEndPayment ==
    LET loanId == requestToLoanId[lastCall.id]
    IN  (/\ lastCall.op = "decryptAmortizationSchedule"
         /\ lastCall.result = "ok"
         /\ encryptedLoans[loanId].encryptedPrincipal = EndToEndLoan.principal
         /\ encryptedLoans[loanId].encryptedInterestRate = EndToEndLoan.rate
         /\ encryptedLoans[loanId].encryptedTerm = EndToEndLoan.term
         /\ encryptedLoans[loanId].encryptedExtraPayment = EndToEndLoan.extra
         /\ decryptedSchedules[loanId].monthlyPayment
               = amortizationSchedules[loanId].encryptedMonthlyPayment)
            => /\ decryptedSchedules[loanId].isRevealed
               /\ decryptedSchedules[loanId].monthlyPayment
                     \in {U32(298), U32(299), U32(300)}

\* C7: an analytic function called for a loan id whose schedule is not
\* calculated fails with 'Schedule not calculated'.
C7_AnalyticsNeedSchedule ==
    (/\ lastCall.op \in AnalyticFunctions
     /\ ~amortizationSchedules[lastCall.id].isCalculated)
        => lastCall.result = "Schedule not calculated"

\* C8: requestScheduleDecryption sent by the loan's borrower fails with
\* 'Schedule not calculated' while the schedule is not calculated and with
\* 'Already decrypted' once the loan's schedule is revealed; in both cases
\* requestToLoanId and the library's request counter are unchanged.
C8_BorrowerRequestRejected ==
    [][(/\ Calls("requestScheduleDecryption")
        /\ lastCall'.sender = encryptedLoans[lastCall'.id].borrower)
          => /\ ~amortizationSchedules[lastCall'.id].isCalculated
                  => /\ lastCall'.result = "Schedule not calculated"
                     /\ UNCHANGED <<requestToLoanId, counterRequest>>
             /\ decryptedSchedules[lastCall'.id].isRevealed
                  => /\ lastCall'.result = "Already decrypted"
                     /\ UNCHANGED <<requestToLoanId, counterRequest>>]_vars

\* C8 witness: the borrower asked again after a request for the loan resolved.
C8_Witness ==
    /\ lastCall.op = "requestScheduleDecryption"
    /\ lastCall.result = "Already decrypted"
    /\ lastCall.sender = encryptedLoans[lastCall.id].borrower
    /\ \E r \in RequestIds : r < counterRequest /\ requestToLoanId[r] = lastCall.id

\* C8 witness of the other case: the borrower asked before the calculation.
C8_WitnessNotCalculated ==
    /\ lastCall.op = "requestScheduleDecryption"
    /\ lastCall.result = "Schedule not calculated"
    /\ lastCall.sender = encryptedLoans[lastCall.id].borrower

\* C9: a decryptAmortizationSchedule call that fails on its proof changes
\* nothing the contract or the library stores, and the request stays pending:
\* the same request id with the true decryptions and the KMS's signature of
\* them passes every check.
C9_InvalidProofRecoverable ==
    [][(/\ Calls("decryptAmortizationSchedule")
        /\ lastCall'.result = "Invalid proof")
          => /\ UNCHANGED <<contractVars, libraryVars>>
             /\ LET r == lastCall'.id
                    c == TrueCleartexts(requestToLoanId[r])
                IN  decryptRequires(r, c, ValidProof(r, c)) = "ok"]_vars

\* C9 witness: a call failed on its proof and its request is still pending.
C9_Witness ==
    /\ lastCall.op = "decryptAmortizationSchedule"
    /\ lastCall.result = "Invalid proof"
    /\ requestToLoanId[lastCall.id] # 0
    /\ ~decryptedSchedules[requestToLoanId[lastCall.id]].isRevealed

\* C10: decryptAmortizationSchedule with a request id the library never issued
\* fails with 'Invalid request', whatever cleartexts and proof come with it,
\* and changes nothing the contract stores.
C10_UnknownRequest ==
    [][(/\ Calls("decryptAmortizationSchedule")
        /\ lastCall'.id >= counterRequest)
          => /\ lastCall'.result = "Invalid request"
             /\ UNCHANGED <<contractVars, libraryVars>>]_vars

\* C10 witness: an unknown request id was tried while another request was
\* pending on a calculated schedule.
C10_Witness ==
    /\ lastCall.op = "decryptAmortizationSchedule"
    /\ lastCall.result = "Invalid request"
    /\ lastCall.id >= counterRequest
    /\ counterRequest > 0

\* C11: for every loan id, a step emits ScheduleDecrypted(id) exactly when it
\* turns isRevealed of that id from false to true, the decrypted schedule of
\* the id is written in no other step, and a revealed id stays revealed: the
\* plaintext is stored and the event emitted once, in one step.
C11_RevealedOnce ==
    [][\A id \in LoanIds :
          LET emits == Idle /\ lastCall'.emitted = <<"ScheduleDecrypted", id>>
              reveals == /\ ~decryptedSchedules[id].isRevealed
                         /\ decryptedSchedules'[id].isRevealed
          IN  /\ emits <=> reveals
              /\ decryptedSchedules'[id] # decryptedSchedules[id] => reveals
              /\ decryptedSchedules[id].isRevealed
                    => decryptedSchedules'[id].isRevealed]_vars

\* C11 witness: two requests were pending for one loan, one of them resolved,
\* and the other one was then submitted with its proof.
C11_Witness ==
    /\ lastCall.op = "decryptAmortizationSchedule"
    /\ lastCall.result = "Already decrypted"
    /\ counterRequest = 2
    /\ requestToLoanId[0] = requestToLoanId[1]
    /\ Cardinality(verifiedRequests) = 1
    /\ lastCall.id < counterRequest
    /\ lastCall.id \notin verifiedRequests

\* C12: a loan id whose decrypted schedule is revealed, or holds a non-zero
\* plaintext, has a recorded request id that maps to it and whose call passed
\* FHE.checkSignatures; without one the id stays unrevealed.
C12_PlaintextOnlyAfterVerification ==
    \A id \in LoanIds :
        (\/ decryptedSchedules[id].isRevealed
         \/ decryptedSchedules[id].monthlyPayment # U32Zero
         \/ decryptedSchedules[id].totalInterest # U32Zero
         \/ decryptedSchedules[id].payoffTime # U32Zero)
            => \E r \in verifiedRequests :
                  r < counterRequest /\ requestToLoanId[r] = id

\* C12 witness: one loan is revealed while the request of another loan, tried
\* with a proof that fails, is still unresolved and its loan unrevealed.
C12_Witness ==
    /\ lastCall.op = "decryptAmortizationSchedule"
    /\ lastCall.result = "Invalid proof"
    /\ lastCall.id \notin verifiedRequests
    /\ ~decryptedSchedules[requestToLoanId[lastCall.id]].isRevealed
    /\ \E id \in LoanIds : decryptedSchedules[id].isRevealed

\* C13: once isRevealed of a loan id is true, no step changes monthlyPayment,
\* totalInterest, payoffTime or isRevealed of that id.
C13_RevealedNeverMutated ==
    [][\A id \in LoanIds :
          decryptedSchedules[id].isRevealed
              => decryptedSchedules'[id] = decryptedSchedules[id]]_vars

\* C13 witness: after a loan was revealed another loan was submitted, and a
\* second resolution was tried on the revealed one.
C13_Witness ==
    /\ lastCall.op = "decryptAmortizationSchedule"
    /\ lastCall.result = "Already decrypted"
    /\ loanCount = 2
    /\ \E id \in LoanIds :
          /\ decryptedSchedules[id].isRevealed
          /\ id < loanCount
          /\ encryptedLoans[id].borrower # ZeroAddress

\* C14: calculateAmortization sent by an address that is not an authorised
\* advisor fails with 'Not authorized' and changes nothing; an address turns
\* authorised only in a successful authorizeAdvisor call for it sent by
\* platformAdmin; platformAdmin is the deployer and no step changes it.
C14_OnlyAuthorisedAdvisors ==
    [][/\ (/\ Calls("calculateAmortization")
           /\ ~financialAdvisors[lastCall'.sender])
              => /\ lastCall'.result = "Not authorized"
                 /\ UNCHANGED <<contractVars, libraryVars>>
       /\ \A a \in Addr :
             financialAdvisors'[a] # financialAdvisors[a]
                 => /\ Calls("authorizeAdvisor")
                    /\ lastCall'.result = "ok"
                    /\ lastCall'.sender = platformAdmin
                    /\ lastCall'.addr = a
                    /\ financialAdvisors'[a]
       /\ platformAdmin = Deployer
       /\ platformAdmin' = platformAdmin]_vars

\* C14 witness: with an advisor authorised, another address tried to calculate
\* a submitted, uncalculated loan.
C14_Witness ==
    /\ lastCall.op = "calculateAmortization"
    /\ lastCall.result = "Not authorized"
    /\ \E a \in Addr : financialAdvisors[a]
    /\ encryptedLoans[lastCall.id].borrower # ZeroAddress
    /\ ~amortizationSchedules[lastCall.id].isCalculated

\* C15: a submitEncryptedLoan call succeeds, adds 1 to loanCount, stores under
\* the new id loanCount (unused until then) a loan whose borrower is the caller
\* and whose handles are the arguments, leaves that id's schedule with
\* isCalculated false and its decrypted schedule with isRevealed false, and
\* emits LoanSubmitted(newId, caller).
C15_SubmitCreatesLoan ==
    [][Calls("submitEncryptedLoan")
          => LET newId == loanCount + 1
                 loan == encryptedLoans'[newId]
             IN  /\ lastCall'.result = "ok"
                 /\ loanCount' = newId
                 /\ lastCall'.id = newId
                 /\ encryptedLoans[newId] = EmptyLoan
                 /\ \A id \in 1 .. loanCount : encryptedLoans[id].id = id
                 /\ loan.id = newId
                 /\ loan.borrower = lastCall'.sender
                 /\ [principal |-> loan.encryptedPrincipal,
                     rate |-> loan.encryptedInterestRate,
                     term |-> loan.encryptedTerm,
                     extra |-> loan.encryptedExtraPayment] \in LoanInputs
                 /\ ~amortizationSchedules'[newId].isCalculated
                 /\ ~decryptedSchedules'[newId].isRevealed
                 /\ borrowerLoans'[lastCall'.sender]
                       = Append(borrowerLoans[lastCall'.sender], newId)
                 /\ lastCall'.emitted = <<"LoanSubmitted", newId, lastCall'.sender>>]_vars

\* C15 witness: the loan was submitted under an id whose schedule an advisor
\* had calculated before the submission.
C15_Witness ==
    /\ lastCall.op = "submitEncryptedLoan"
    /\ lastCall.result = "ok"
    /\ lastCall.id \in calculatedOnce
    /\ lastCall.id = loanCount

\* C16: a stored loan (its borrower is set) is changed by no step, and a
\* calculateAmortization call changes no loan.
C16_LoanImmutable ==
    [][/\ \A id \in LoanIds :
             encryptedLoans[id].borrower # ZeroAddress
                 => encryptedLoans'[id] = encryptedLoans[id]
       /\ Calls("calculateAmortization") => UNCHANGED encryptedLoans]_vars

\* C16 witness: the schedule of a submitted loan was calculated.
C16_Witness ==
    /\ lastCall.op = "calculateAmortization"
    /\ lastCall.result = "ok"
    /\ encryptedLoans[lastCall.id].borrower # ZeroAddress
    /\ amortizationSchedules[lastCall.id].isCalculated

\* the decrypted schedules a decryptAmortizationSchedule call leaves, from d
Resolved(d, requestId, cleartexts) ==
    IF decryptRequiresOn(d, requestId, cleartexts, ValidProof(requestId, cleartexts)) = "ok"
    THEN StoreDecrypted(d, requestToLoanId[requestId], cleartexts)
    ELSE d

\* C17: a successful decryptAmortizationSchedule for one loan changes no
\* record of any other loan, and for two issued requests of two different
\* loans, resolving them in either order leaves the same decrypted schedules.
C17_ResolutionsIndependent ==
    [][/\ (Calls("decryptAmortizationSchedule") /\ lastCall'.result = "ok")
            => /\ \A id \in LoanIds \ {requestToLoanId[lastCall'.id]} :
                     decryptedSchedules'[id] = decryptedSchedules[id]
               /\ UNCHANGED <<loanCount, encryptedLoans, amortizationSchedules,
                              borrowerLoans, financialAdvisors, requestToLoanId,
                              platformAdmin, libraryVars>>
       /\ \A r1, r2 \in 0 .. (counterRequest - 1) :
             requestToLoanId[r1] # requestToLoanId[r2]
                 => \A c1 \in CleartextChoices(r1), c2 \in CleartextChoices(r2) :
                       Resolved(Resolved(decryptedSchedules, r1, c1), r2, c2)
                           = Resolved(Resolved(decryptedSchedules, r2, c2), r1, c1)]_vars

\* C17 witness: two requests of two different loans were pending together and
\* the call resolved one of them while the other one stays pending.
C17_Witness ==
    /\ lastCall.op = "decryptAmortizationSchedule"
    /\ lastCall.result = "ok"
    /\ counterRequest = 2
    /\ requestToLoanId[0] # requestToLoanId[1]
    /\ verifiedRequests = {lastCall.id}
    /\ \E r \in {0, 1} \ {lastCall.id} :
          /\ amortizationSchedules[requestToLoanId[r]].isCalculated
          /\ ~decryptedSchedules[requestToLoanId[r]].isRevealed

\* C18: calculateAmortization sent by an authorised advisor for a submitted,
\* uncalculated loan succeeds and marks the schedule calculated whatever the
\* four plaintexts are, zero divisors included, and two calculated loans with
\* the same four plaintexts have the same schedule values.
C18_DivisionByZeroTotal ==
    [][/\ (/\ Calls("calculateAmortization")
           /\ financialAdvisors[lastCall'.sender]
           /\ encryptedLoans[lastCall'.id].borrower # ZeroAddress
           /\ ~amortizationSchedules[lastCall'.id].isCalculated)
              => /\ lastCall'.result = "ok"
                 /\ amortizationSchedules'[lastCall'.id].isCalculated
       /\ \A a, b \in LoanIds :
             (/\ amortizationSchedules[a].isCalculated
              /\ amortizationSchedules[b].isCalculated
              /\ encryptedLoans[a].encryptedPrincipal = encryptedLoans[b].encryptedPrincipal
              /\ encryptedLoans[a].encryptedInterestRate
                    = encryptedLoans[b].encryptedInterestRate
              /\ encryptedLoans[a].encryptedTerm = encryptedLoans[b].encryptedTerm
              /\ encryptedLoans[a].encryptedExtraPayment
                    = encryptedLoans[b].encryptedExtraPayment)
                => amortizationSchedules[a] = amortizationSchedules[b]]_vars

\* the monthly rate calculateAmortization derives for a loan
MonthlyRateOf(loan) == FHE_div(loan.encryptedInterestRate, FHE_asEuint32(1200))

\* C18 witness: loans 1 and 2 have the same plaintexts, both divisors of the
\* calculation are zero for them, and both schedules were calculated.
C18_Witness ==
    /\ lastCall.op = "calculateAmortization"
    /\ lastCall.result = "ok"
    /\ encryptedLoans[1].encryptedPrincipal = encryptedLoans[2].encryptedPrincipal
    /\ encryptedLoans[1].encryptedInterestRate = encryptedLoans[2].encryptedInterestRate
    /\ encryptedLoans[1].encryptedTerm = encryptedLoans[2].encryptedTerm
    /\ encryptedLoans[1].encryptedExtraPayment = encryptedLoans[2].encryptedExtraPayment
    /\ amortizationSchedules[1].isCalculated
    /\ amortizationSchedules[2].isCalculated
    /\ FHE_pow(FHE_add(FHE_asEuint32(1), MonthlyRateOf(encryptedLoans[1])),
               encryptedLoans[1].encryptedTerm) = U32One
    /\ FHE_add(amortizationSchedules[1].encryptedMonthlyPayment,
               encryptedLoans[1].encryptedExtraPayment) = U32Zero

\* C19: a calculated schedule holds totalInterest equal to
\* (monthlyPayment * term - principal) mod 2^32 of its loan, and its three
\* values are 32-bit words.
C19_WraparoundInterest ==
    \A id \in LoanIds :
        amortizationSchedules[id].isCalculated
            => /\ amortizationSchedules[id].encryptedTotalInterest
                     = U32Sub(U32Mul(amortizationSchedules[id].encryptedMonthlyPayment,
                                     encryptedLoans[id].encryptedTerm),
                              encryptedLoans[id].encryptedPrincipal)
               /\ IsU32(amortizationSchedules[id].encryptedMonthlyPayment)
               /\ IsU32(amortizationSchedules[id].encryptedTotalInterest)
               /\ IsU32(amortizationSchedules[id].encryptedPayoffTime)

\* C19 witness: one calculated loan has monthlyPayment * term below its
\* principal, another has a product that exceeds 0xFFFFFFFF.
C19_Witness ==
    /\ \E id \in LoanIds :
          /\ amortizationSchedules[id].isCalculated
          /\ U32Lt(U32Mul(amortizationSchedules[id].encryptedMonthlyPayment,
                          encryptedLoans[id].encryptedTerm),
                   encryptedLoans[id].encryptedPrincipal)
    /\ \E id \in LoanIds :
          /\ amortizationSchedules[id].isCalculated
          /\ encryptedLoans[id].encryptedTerm # U32Zero
          /\ U32DivNonZero(U32Mul(amortizationSchedules[id].encryptedMonthlyPayment,
                                  encryptedLoans[id].encryptedTerm),
                           encryptedLoans[id].encryptedTerm)
                # amortizationSchedules[id].encryptedMonthlyPayment

\* the ids listed under "schedule_keys"
ListedIds == {ParsedKeys(store[KeysKey])[i] : i \in 1 .. Len(ParsedKeys(store[KeysKey]))}

\* the ids with a record stored under "schedule_<id>"
StoredIds == {id \in ScheduleIds : store[ScheduleKey(id)] # EmptyBytes}

\* C20: when no submitSchedule run is in progress and every run that ended,
\* ended with status 'success', the array under 'schedule_keys' contains the
\* id of every record stored under a 'schedule_<id>' key.
C20_KeysListEveryRecord ==
    (/\ \A c \in Clients : pc[c] = "idle"
     /\ \A r \in BagToSet(finishedRuns) : r.status = "success")
        => StoredIds \subseteq ListedIds

\* what a stored record shows without decoding its data field
CleartextFields(rec) ==
    [timestamp |-> rec.timestamp, owner |-> rec.owner,
     loanAmount |-> rec.loanAmount, term |-> rec.term, status |-> rec.status]

\* C21: the record submitSchedule stores carries no cleartext financial
\* input: two stored records of submissions that differ only in the entered
\* loan amount or term (same owner, same time, same status) have identical
\* cleartext fields.
C21_NoCleartextInput ==
    \A id1 \in StoredIds, id2 \in StoredIds :
        (/\ StoredRecord(id1).owner = StoredRecord(id2).owner
         /\ StoredRecord(id1).timestamp = StoredRecord(id2).timestamp
         /\ StoredRecord(id1).status = StoredRecord(id2).status)
            => CleartextFields(StoredRecord(id1)) = CleartextFields(StoredRecord(id2))

\* C22: a call of any analytic function, in any state and whatever its
\* outcome, leaves loanCount, encryptedLoans, amortizationSchedules,
\* decryptedSchedules, borrowerLoans, financialAdvisors and requestToLoanId
\* unchanged.
C22_AnalyticsArePureReads ==
    [][(Idle /\ lastCall'.op \in AnalyticFunctions)
          => UNCHANGED <<loanCount, encryptedLoans, amortizationSchedules,
                         decryptedSchedules, borrowerLoans, financialAdvisors,
                         requestToLoanId>>]_vars

\* an analytic function returned a value for a calculated loan with a
\* non-zero payment handle
C22_Witness ==
    /\ lastCall.op \in AnalyticFunctions
    /\ lastCall.result = "ok"
    /\ amortizationSchedules[lastCall.id].isCalculated
    /\ amortizationSchedules[lastCall.id].encryptedMonthlyPayment # U32Zero

\* C23: in every state, for every account b, borrowerLoans[b] is strictly
\* increasing and its elements are exactly the loan ids whose recorded
\* borrower is b.
C23_BorrowerLoansOrdered ==
    \A b \in Addr :
        /\ \A i \in 1 .. Len(borrowerLoans[b]) - 1 :
              borrowerLoans[b][i] < borrowerLoans[b][i + 1]
        /\ {borrowerLoans[b][i] : i \in 1 .. Len(borrowerLoans[b])}
              = {id \in 1 .. MaxLoans : encryptedLoans[id].borrower = b}

\* one borrower submitted two loans
C23_Witness ==
    /\ lastCall.op = "submitEncryptedLoan"
    /\ lastCall.result = "ok"
    /\ Len(borrowerLoans[lastCall.sender]) = 2

\* two borrowers submitted one loan each
C23_WitnessTwoBorrowers ==
    \A b \in Borrowers : Len(borrowerLoans[b]) = 1

\* C24: no pow is evaluated with a term above the upper bound of 600 months:
\* a calculateAmortization call that succeeds (its two FHE.pow calls take
\* the loan's term as the exponent, with no bound argument) is for a loan
\* whose term is at most 600.
C24_ExponentBounded ==
    (/\ lastCall.op = "calculateAmortization"
     /\ lastCall.result = "ok")
        => ~U32Lt(U32(600), encryptedLoans[lastCall.id].encryptedTerm)

\* C26: in every state a calculated schedule belongs to a submitted loan:
\* isCalculated of an id implies 1 <= id <= loanCount and a non-zero
\* recorded borrower.
C26_CalculatedIsSubmitted ==
    \A id \in LoanIds :
        amortizationSchedules[id].isCalculated
            => /\ 1 <= id
               /\ id <= loanCount
               /\ encryptedLoans[id].borrower # ZeroAddress

\* C27: in every state and for every loan id, a revealed decrypted schedule
\* belongs to a calculated schedule.
C27_RevealedIsCalculated ==
    \A id \in LoanIds :
        decryptedSchedules[id].isRevealed => amortizationSchedules[id].isCalculated

\* a loan was just revealed while another id is still uncalculated
C27_Witness ==
    /\ lastCall.op = "decryptAmortizationSchedule"
    /\ lastCall.result = "ok"
    /\ decryptedSchedules[requestToLoanId[lastCall.id]].isRevealed
    /\ \E id \in LoanIds : ~amortizationSchedules[id].isCalculated

\* C28: loan id 0 is never assigned; a requestScheduleDecryption call that
\* succeeds is by the borrower of a loan in 1..loanCount whose schedule is
\* calculated, and records that loan under the request id it returns; every
\* request id issued so far maps to a loan in 1..loanCount, every other one
\* to 0; and a decryptAmortizationSchedule call with an issued request id
\* never fails with 'Invalid request'.
C28_RequestsNameLoans ==
    [][/\ encryptedLoans'[0] = EmptyLoan
       /\ (Calls("requestScheduleDecryption") /\ lastCall'.result = "ok")
             => /\ lastCall'.id \in 1 .. loanCount
                /\ encryptedLoans[lastCall'.id].borrower = lastCall'.sender
                /\ amortizationSchedules[lastCall'.id].isCalculated
                /\ lastCall'.ret = <<counterRequest>>
                /\ requestToLoanId'[counterRequest] = lastCall'.id
       /\ \A r \in RequestIds :
             IF r < counterRequest'
             THEN requestToLoanId'[r] \in 1 .. loanCount'
             ELSE requestToLoanId'[r] = 0
       /\ (Calls("decryptAmortizationSchedule") /\ lastCall'.id < counterRequest)
             => lastCall'.result # "Invalid request"]_vars

\* a recorded request was resolved, and a request for id 0, whose schedule an
\* advisor had calculated, was refused
C28_Witness ==
    /\ lastCall.op = "requestScheduleDecryption"
    /\ lastCall.id = 0
    /\ lastCall.result = "Not borrower"
    /\ amortizationSchedules[0].isCalculated
    /\ counterRequest >= 1
    /\ \E id \in 1 .. loanCount : decryptedSchedules[id].isRevealed

\* the handle v encrypts a value above the 16-bit number n
Exceeds(v, n) == v[1] > 0 \/ v[2] > n

\* C29: generatePersonalizedAdvice on a calculated loan returns 1 when the
\* interest savings exceed 1000, otherwise 2 when the payment-shock risk
\* exceeds 15, otherwise 3.
C29_AdviceIsOneTwoOrThree ==
    (/\ lastCall.op = "generatePersonalizedAdvice"
     /\ amortizationSchedules[lastCall.id].isCalculated)
        => LET savings == calculateInterestSavings(lastCall.id).val[1]
               risk == calculatePaymentShockRisk(lastCall.id).val[1]
           IN  /\ lastCall.result = "ok"
               /\ lastCall.ret \in {<<U32(1)>>, <<U32(2)>>, <<U32(3)>>}
               /\ lastCall.ret = <<U32(1)>> <=> Exceeds(savings, 1000)
               /\ lastCall.ret = <<U32(2)>>
                     <=> (~Exceeds(savings, 1000) /\ Exceeds(risk, 15))

\* the advice is 1 although the risk exceeds 15 as well
C29_Witness ==
    /\ lastCall.op = "generatePersonalizedAdvice"
    /\ lastCall.ret = <<U32(1)>>
    /\ Exceeds(calculatePaymentShockRisk(lastCall.id).val[1], 15)

\* the advice is 2
C29_WitnessRefinance ==
    /\ lastCall.op = "generatePersonalizedAdvice"
    /\ lastCall.ret = <<U32(2)>>

\* the advice is 3
C29_WitnessMaintain ==
    /\ lastCall.op = "generatePersonalizedAdvice"
    /\ lastCall.ret = <<U32(3)>>

\* C30: a stored schedule record whose status is "completed" is never
\* written back to "active", whatever the interleaving of the
\* activateSchedule and completeSchedule runs
C30_StatusMovesForward ==
    [][\A id \in ScheduleIds :
          (/\ Len(store[ScheduleKey(id)]) > 0
           /\ StoredRecord(id).status = "completed"
           /\ Len(store'[ScheduleKey(id)]) > 0)
          => JSON_parse_toUtf8String(store'[ScheduleKey(id)]).status # "active"]_vars

\* C31: a submitSchedule run that ends with status "error" leaves no record
\* of its own in the store: when no other run, finished or in progress, used
\* the run's schedule id, nothing is stored under "schedule_<id>" once the
\* run has failed
C31_ErrorLeavesNoRecord ==
    [][\A c \in Clients :
          (/\ pc[c] # "idle"
           /\ pc'[c] = "idle"
           /\ transactionStatus'[c].status = "error"
           /\ run[c].scheduleId # ""
           /\ \A r \in BagToSet(finishedRuns) : r.scheduleId # run[c].scheduleId
           /\ \A d \in Clients \ {c} : run[d].scheduleId # run[c].scheduleId)
          => Len(store'[ScheduleKey(run[c].scheduleId)]) = 0]_vars

\* the bytes under "schedule_<id>" are a record: not empty, and they parse
IsRecord(id) ==
    /\ Len(store[ScheduleKey(id)]) > 0
    /\ Parses(store[ScheduleKey(id)])

\* the ids listed under "schedule_keys" that have a record, in listed order
ListedRecords ==
    SelectSeq(ParsedKeys(store[KeysKey]), LAMBDA id : IsRecord(id))

\* list shows exactly the ListedRecords, each with the fields of its stored
\* record and a missing status as "pending", latest timestamp first
ShowsListedRecords(list) ==
    /\ Len(list) = Len(ListedRecords)
    /\ {list[i].id : i \in 1 .. Len(list)}
           = {ListedRecords[i] : i \in 1 .. Len(ListedRecords)}
    /\ \A i \in 1 .. Len(list) :
          LET rec == StoredRecord(list[i].id)
          IN  /\ list[i].encryptedData = rec.data
              /\ list[i].timestamp = rec.timestamp
              /\ list[i].owner = rec.owner
              /\ list[i].loanAmount = rec.loanAmount
              /\ list[i].term = rec.term
              /\ list[i].status = (IF rec.status = "" THEN "pending" ELSE rec.status)
    /\ \A i \in 1 .. Len(list), j \in 1 .. Len(list) :
          i < j => list[i].timestamp >= list[j].timestamp

\* in this step the loadSchedules run of client c that was waiting at the
\* await `at` with `left` keys left returns, with or without a rejected getData
RunReturns(c, at, left, rejected) ==
    \E t \in BagToSet(tasks) :
        /\ t.client = c
        /\ t.pc = at
        /\ Len(t.keys) = left
        /\ LET u == [t EXCEPT !.pc = "returned", !.keys = <<>>, !.list = <<>>,
                              !.rejected = rejected]
           IN  CopiesIn(u, tasks') > CopiesIn(u, tasks)

C32_WitnessSkipped ==
    /\ \E t \in BagToSet(tasks) : t.client = "c1" /\ t.pc = "returned" /\ ~t.rejected
    /\ ~isRefreshing["c1"]
    /\ ParsedKeys(store[KeysKey]) = <<"s1", "s2">>
    /\ store[ScheduleKey("s1")] = NotJSON
    /\ Len(schedules["c1"]) = 1
    /\ schedules["c1"][1].id = "s2"

\* client c has a loadSchedules run in progress
Loads(c) == \E t \in BagToSet(tasks) : t.client = c /\ t.pc # "returned"

\* C33: every loadSchedules run ends with isRefreshing and loading false,
\* and every submitSchedule run past the provider check ends with creating
\* false, whichever way its awaits settle
C33_RunsEnd ==
    \A c \in Clients :
        /\ Loads(c) ~> (~Loads(c) /\ ~isRefreshing[c] /\ ~loading[c])
        /\ (pc[c] # "idle") ~> (pc[c] = "idle" /\ ~creating[c])

\* the loadSchedules run of the mount effect has returned and a
\* submitSchedule run has ended in error: creating, isRefreshing and loading
\* are false
C33_Witness ==
    /\ \E t \in BagToSet(tasks) : t.client = "c1" /\ t.kind = "load" /\ t.pc = "returned"
    /\ \E r \in BagToSet(finishedRuns) : r.client = "c1" /\ r.status = "error"
    /\ pc["c1"] = "idle"
    /\ ~creating["c1"]
    /\ ~Loads("c1")
    /\ ~isRefreshing["c1"]
    /\ ~loading["c1"]

\* C34: while a submitSchedule run of a client is in progress, before its
\* success or error status is set, the client's transaction status overlay
\* is visible: no timer armed by an earlier operation hides it
C34_OverlayStaysVisible ==
    \A c \in Clients :
        pc[c] \in {"getContractWithSigner", "setData schedule", "getData keys",
                   "setData keys"}
        => transactionStatus[c].visible

====
